---- MODULE Spec2Model ----
(***************************************************************************)
(* The buffer store of the editor (useBufferStore): the ordered list of    *)
(* open buffers, the active buffer id, the max-open-tabs limit, the        *)
(* pending-close record and the closed-buffers history, with one action    *)
(* per store operation.  Every synchronous operation is a function from    *)
(* the store to the store (XxxFn), and its action writes that function's   *)
(* result; the properties quantify over the operation's arguments in every *)
(* reachable store.                                                        *)
(*                                                                         *)
(* updateBuffer (which overwrites a whole buffer record with one supplied  *)
(* by the caller) has no caller in the sources at hand and is not part of  *)
(* the model.                                                              *)
(***************************************************************************)
EXTENDS Integers, Sequences, FiniteSets, TLC

\* ------------------------------------------------------------------ bounds
\* Largest value Date.now() takes in a run (the clock starts at 0).
MaxClock == 1
\* Largest value handed to setMaxOpenTabs.
MaxTabsArg == 2
\* Extension checks counted as pending for one path (further ones are merged).
MaxPendingGates == 1
\* LspClient calls in flight at a time.
MaxLspCalls == 2
\* Spawn requests the process host counts per (workspace, language).
MaxSpawned == 2
\* installExtension and uninstallExtension calls in flight at a time.
MaxExtensionCalls == 2
MaxRestoreTimers == 1
MaxContentLen == 2

\* ------------------------------------------------------- program constants
\* EDITOR_CONSTANTS.MAX_OPEN_TABS and EDITOR_CONSTANTS.MAX_CLOSED_BUFFERS_HISTORY
\* are defined outside the sources at hand; the model gives them small values.
MAX_OPEN_TABS == 2
MAX_CLOSED_BUFFERS_HISTORY == 2

\* ------------------------------------------------------------ input values
\* Paths are sequences of characters: "a-b", "a_b" and "c".
PathAB1 == <<"a", "-", "b">>
PathAB2 == <<"a", "_", "b">>
PathC == <<"c">>
Paths == {PathAB1, PathAB2, PathC}
\* Source files: "m.ts", "n.ts" and "k.js".
PathTs == <<"m", ".", "t", "s">>
PathTs2 == <<"n", ".", "t", "s">>
PathJs == <<"k", ".", "j", "s">>
SourcePaths == {PathTs, PathTs2, PathJs}
AllPaths == Paths \cup SourcePaths
NoPath == <<>>

Contents == {"x", "y"}

\* A diff payload (GitDiff | MultiFileDiff), or undefined.
NoDiff == "undefined"
DiffPayloads == {"diff1"}

\* Token sequences handed to updateBufferTokens.
TokenSeqs == {<< >>, <<[start |-> 0, end |-> 1]>>}

\* The flag arguments of openBuffer the callers use: a real file, a virtual
\* buffer, an image, a database view and a diff.
FileFlags == [isImage |-> FALSE, isSQLite |-> FALSE, isDiff |-> FALSE, isVirtual |-> FALSE]
OpenFlags ==
    { FileFlags,
      [FileFlags EXCEPT !.isVirtual = TRUE],
      [FileFlags EXCEPT !.isImage = TRUE],
      [FileFlags EXCEPT !.isSQLite = TRUE],
      [FileFlags EXCEPT !.isDiff = TRUE] }

\* ------------------------------------------------------------ buffer ids
AlphaNumeric ==
    { "a", "b", "c", "d", "e", "f", "g", "h", "i", "j", "k", "l", "m",
      "n", "o", "p", "q", "r", "s", "t", "u", "v", "w", "x", "y", "z",
      "A", "B", "C", "D", "E", "F", "G", "H", "I", "J", "K", "L", "M",
      "N", "O", "P", "Q", "R", "S", "T", "U", "V", "W", "X", "Y", "Z",
      "0", "1", "2", "3", "4", "5", "6", "7", "8", "9" }

\* path.replace(/[^a-zA-Z0-9]/g, "_")
Sanitize(path) ==
    [i \in 1..Len(path) |-> IF path[i] \in AlphaNumeric THEN path[i] ELSE "_"]

\* `buffer_${path.replace(/[^a-zA-Z0-9]/g, "_")}_${Date.now()}`
generateBufferId(path, clock) == [san |-> Sanitize(path), t |-> clock]

\* activeBufferId = null, and the absent id of a record field.
NullId == [san |-> << >>, t |-> -1]

\* Every id a caller may hold: the ids of buffers open now or earlier.
AllIds == {generateBufferId(p, t) : p \in Paths, t \in 0..MaxClock}

\* ----------------------------------------------------------------- state
VARIABLES
    buffers,               \* Buffer[], in tab order
    activeBufferId,        \* string | null
    maxOpenTabs,           \* number
    pendingClose,          \* PendingClose | null
    closedBuffersHistory,  \* ClosedBuffer[], most recent first
    now,                   \* Date.now()
    reopening,             \* the reopenClosedTab call awaiting readFileContent
    reloading,             \* the reloadBufferFromDisk call awaiting readFileContent
    reloadSettled,         \* how the reloadBufferFromDisk call that settled last ended
    sessionSave,           \* the saveSessionToStore call made last whose
                           \* import(...).then callback has not run yet
    savedSession,          \* useSessionStore: the arguments of the last saveSession call
    stopStarts,            \* the paths closeBufferForce began an LSP stop for whose
                           \* import(...).then callback has not run yet
    gates,                 \* per path, the extension checks openBuffer started
                           \* whose import(...).then callback has not run yet
    gateStarts,            \* per path, the LSP starts an extension check began
                           \* whose import chain has not reached startForFile
    installNeeded,         \* details of the "extension-install-needed" events dispatched
    rootFolderPath,        \* useFileSystemStore: rootFolderPath (NoPath for none)
    gateFailures,          \* the failures of the extension check and of the LSP
                           \* start it began, each with the handler it reached
    availableExtensions,   \* useExtensionStore: Map id -> AvailableExtension
    installedExtensions,   \* useExtensionStore: the ids in the installed Map
    loadingInstalled,      \* loadInstalledExtensions calls awaiting the host
    hostInstalled,         \* extension host: the ids of the extensions installed
    extensionCalls,        \* installExtension and uninstallExtension calls in
                           \* flight, each at its await
    activeLanguageServers, \* LspClient: Set of "workspace:language" keys
    lspCalls,              \* LspClient calls in flight, each at its await
    spawned,               \* process host: per (workspace, language), the spawn
                           \* requests received and neither rejected nor stopped
    lspSettled,            \* how the LspClient call that settled last ended
    mounted,               \* EditorOverlay is mounted
    tokenizeCalls,         \* EditorOverlay: the calls tokenize received during the
                           \* last transition, in order
    textarea,              \* inputRef.current: the textarea of InputLayer, its
                           \* value, whether the value was ever set (by the user
                           \* or by an assignment) and its selection
    restoreTimers,         \* the setTimeout callbacks of the cursor restore
                           \* effect that have not run, each with the offset of
                           \* the cursorPosition it closed over
    cursorPosition,        \* useEditorStateStore: cursorPosition, as its offset
    positionCache          \* useEditorStateStore: the offsets recorded per buffer id

\* The buffer store with its clock and its calls in flight.
bufferVars == <<buffers, activeBufferId, maxOpenTabs, pendingClose,
                closedBuffersHistory, now, reopening, reloading, reloadSettled,
                sessionSave, savedSession, stopStarts>>

\* What the extension check of openBuffer reads and writes.
gateVars == <<gates, gateStarts, installNeeded, rootFolderPath, gateFailures>>

\* useExtensionStore.
extensionVars == <<availableExtensions, installedExtensions, loadingInstalled,
                   hostInstalled, extensionCalls>>

\* LspClient and the process host.
lspVars == <<activeLanguageServers, lspCalls, spawned, lspSettled>>

\* Everything outside the buffer store and its subscribers.
outsideVars == <<gateVars, extensionVars, lspVars>>

\* The EditorOverlay component, which subscribes to the buffer store.
overlayVars == <<mounted, tokenizeCalls, textarea, restoreTimers,
                 cursorPosition, positionCache>>

vars == <<bufferVars, outsideVars, overlayVars>>

\* pendingClose = null
NoPending == [bufferId |-> NullId, type |-> "none", keepBufferId |-> NullId]

\* The state of useBufferStore.
Store == [buffers |-> buffers, activeBufferId |-> activeBufferId,
          maxOpenTabs |-> maxOpenTabs, pendingClose |-> pendingClose,
          closedBuffersHistory |-> closedBuffersHistory,
          sessionSave |-> sessionSave, stopStarts |-> stopStarts]

\* set(...): the store becomes s.
SetStore(s) ==
    /\ buffers' = s.buffers
    /\ activeBufferId' = s.activeBufferId
    /\ maxOpenTabs' = s.maxOpenTabs
    /\ pendingClose' = s.pendingClose
    /\ closedBuffersHistory' = s.closedBuffersHistory
    /\ sessionSave' = s.sessionSave
    /\ stopStarts' = s.stopStarts

\* ----------------------------------------------------------- array helpers
\* buffers.findIndex((b) => b.id === id), 1-based; 0 stands for -1.
FindIndex(bufs, id) ==
    IF \E i \in 1..Len(bufs) : bufs[i].id = id
    THEN CHOOSE i \in 1..Len(bufs) :
            /\ bufs[i].id = id
            /\ \A j \in 1..(i - 1) : bufs[j].id # id
    ELSE 0

\* buffers.find((b) => b.path === path), as an index; 0 when there is none.
FindIndexByPath(bufs, path) ==
    IF \E i \in 1..Len(bufs) : bufs[i].path = path
    THEN CHOOSE i \in 1..Len(bufs) :
            /\ bufs[i].path = path
            /\ \A j \in 1..(i - 1) : bufs[j].path # path
    ELSE 0

Min(a, b) == IF a <= b THEN a ELSE b

\* ------------------------------------------------------------ EditorOverlay
\* buffer?.path of a render that finds no buffer.
UndefinedPath == <<"undefined">>

\* A dependency array that holds the content as well.
EffectDepsWithContent(bufs, bufferId) ==
    LET i == FindIndex(bufs, bufferId) IN
    <<bufferId, IF i = 0 THEN UndefinedPath ELSE bufs[i].path,
      IF i = 0 THEN "" ELSE bufs[i].content>>

\* The dependency array of the tokenize effect, [bufferId, buffer?.path], in a
\* render of the store (bufs, bufferId).
EffectDeps(bufs, bufferId) ==
    LET i == FindIndex(bufs, bufferId) IN
    <<bufferId, IF i = 0 THEN UndefinedPath ELSE bufs[i].path>>

\* React runs an effect after a render in which one of its dependencies differs
\* from the render before.
EffectRuns(bufs, bufferId, bufs2, bufferId2) ==
    EffectDeps(bufs, bufferId) # EffectDeps(bufs2, bufferId2)

\* The body of the tokenize effect: the calls it makes to tokenize.
TokenizeEffect(bufs, bufferId) ==
    LET i == FindIndex(bufs, bufferId) IN
    IF i # 0 /\ bufs[i].content # "" /\ bufs[i].path # NoPath
    THEN <<[from |-> "effect", text |-> bufs[i].content]>>
    ELSE << >>

\* The calls to tokenize that follow a change of the store: the mounted
\* component renders the new store and React runs the effects whose
\* dependencies changed.
RenderCalls ==
    IF mounted /\ EffectRuns(buffers, activeBufferId, buffers', activeBufferId')
    THEN TokenizeEffect(buffers', activeBufferId')
    ELSE << >>

\* The text the overlay renders: the content of the buffer that
\* buffers.find((b) => b.id === bufferId) returns, "" when there is none.
OverlayContent(bufs, bufferId) ==
    LET i == FindIndex(bufs, bufferId) IN IF i = 0 THEN "" ELSE bufs[i].content

\* No textarea: EditorOverlay is not mounted or renders null.
NoTextarea ==
    [attached |-> FALSE, value |-> "", dirty |-> FALSE,
     selectionStart |-> 0, selectionEnd |-> 0]

\* <textarea defaultValue={content}> as InputLayer mounts it: the selection of
\* a new textarea is at offset 0.
NewTextarea(content) ==
    [attached |-> TRUE, value |-> content, dirty |-> FALSE,
     selectionStart |-> 0, selectionEnd |-> 0]

\* <textarea defaultValue={content}> as InputLayer renders it again: a
\* textarea whose value was never set shows its default value; one whose value
\* was set keeps it.
DefaultValueSet(widget, content) ==
    IF widget.dirty THEN widget
    ELSE [widget EXCEPT !.value = content,
                        !.selectionStart = Min(@, Len(content)),
                        !.selectionEnd = Min(@, Len(content))]

\* The effect of InputLayer, which runs when bufferId changed: an assignment
\* to the value of a textarea that changes it puts the selection at the end.
SyncTextarea(widget, content) ==
    IF widget.value # content
    THEN [widget EXCEPT !.value = content,
                        !.dirty = TRUE,
                        !.selectionStart = Len(content),
                        !.selectionEnd = Len(content)]
    ELSE widget

\* The textarea after the render of a changed store, `widget` being the
\* textarea before it: EditorOverlay renders InputLayer only when it finds the
\* buffer; InputLayer renders again when the content changed (onSelect, a
\* callback that depends on the content, is a new function then), and assigns
\* the content to the textarea it keeps only in the effect that depends on
\* bufferId.
RenderedTextarea(widget) ==
    LET content == OverlayContent(buffers', activeBufferId') IN
    IF ~mounted THEN widget
    ELSE IF FindIndex(buffers', activeBufferId') = 0 THEN NoTextarea
    ELSE IF ~widget.attached THEN NewTextarea(content)
    ELSE IF activeBufferId' # activeBufferId
    THEN SyncTextarea(DefaultValueSet(widget, content), content)
    ELSE DefaultValueSet(widget, content)

\* The dependency array of the cursor restore effect, [bufferId,
\* cursorPosition]; positions are compared by their offset.
RestoreDeps(bufferId, position) == <<bufferId, position>>

\* The cursor restore effect sets a timer: after a render in which one of its
\* dependencies differs, with inputRef.current, bufferId and cursorPosition set.
RestoreScheduled(widget, position) ==
    /\ mounted
    /\ RestoreDeps(activeBufferId', position) # RestoreDeps(activeBufferId, cursorPosition)
    /\ widget.attached
    /\ activeBufferId' # NullId

\* The timers of the cursor restore effect after such a render.
TimersAfterRender(widget, position) ==
    IF RestoreScheduled(widget, position)
    THEN Append(restoreTimers, position)
    ELSE restoreTimers

\* What a step does to EditorOverlay that leaves the textarea as `widget`, the
\* editor state as `position` and `cache`, and has called tokenize as in
\* `calls`: the component renders the new stores and its effects run.
OverlayRenders(widget, position, cache, calls) ==
    /\ mounted' = mounted
    /\ tokenizeCalls' = calls \o RenderCalls
    /\ cursorPosition' = position
    /\ positionCache' = cache
    /\ textarea' = RenderedTextarea(widget)
    /\ Len(TimersAfterRender(RenderedTextarea(widget), position)) <= MaxRestoreTimers
    /\ restoreTimers' = TimersAfterRender(RenderedTextarea(widget), position)

\* What a step of the buffer store does to EditorOverlay.
EditorOverlayRenders ==
    OverlayRenders(textarea, cursorPosition, positionCache, << >>)

\* The position cache with `offset` recorded for bufferId.
CachePut(cache, bufferId, offset) ==
    {e \in cache : e.bufferId # bufferId}
        \cup {[bufferId |-> bufferId, offset |-> offset]}

\* useEditorStateStore.setCursorPosition: the cache after the position of the
\* active buffer was set to `offset`.
SetCursorPositionCache(cache, bufferId, offset) ==
    IF bufferId # NullId THEN CachePut(cache, bufferId, offset) ELSE cache

\* useEditorStateStore.restorePositionForFile: the cursor position after it,
\* the offset recorded for bufferId when there is one.
restorePositionForFile(cache, position, bufferId) ==
    IF \E e \in cache : e.bufferId = bufferId
    THEN (CHOOSE e \in cache : e.bufferId = bufferId).offset
    ELSE position

\* What a step of the buffer store that ends with
\* restorePositionForFile(bufferId) does to EditorOverlay.
EditorOverlayRendersRestored(bufferId) ==
    OverlayRenders(textarea,
                   restorePositionForFile(positionCache, cursorPosition, bufferId),
                   positionCache, << >>)

\* The component mounts: its first render, after which every effect runs.
mountEditorOverlay ==
    /\ ~mounted
    /\ mounted' = TRUE
    /\ tokenizeCalls' = TokenizeEffect(buffers, activeBufferId)
    /\ textarea' = IF FindIndex(buffers, activeBufferId) = 0
                   THEN NoTextarea
                   ELSE NewTextarea(OverlayContent(buffers, activeBufferId))
    /\ restoreTimers' = IF FindIndex(buffers, activeBufferId) # 0
                           /\ activeBufferId # NullId
                        THEN Append(restoreTimers, cursorPosition)
                        ELSE restoreTimers
    /\ UNCHANGED <<cursorPosition, positionCache>>
    /\ UNCHANGED <<bufferVars, outsideVars>>

\* The callback of the setTimeout of the cursor restore effect: it puts the
\* selection at the offset it closed over, at most the length of the text,
\* and focuses the textarea.
restoreCursorTimeout ==
    /\ restoreTimers # << >>
    /\ restoreTimers' = Tail(restoreTimers)
    /\ textarea' =
          IF textarea.attached
          THEN [textarea EXCEPT
                  !.selectionStart = Min(Head(restoreTimers), Len(textarea.value)),
                  !.selectionEnd = Min(Head(restoreTimers), Len(textarea.value))]
          ELSE textarea
    /\ tokenizeCalls' = << >>
    /\ UNCHANGED <<mounted, cursorPosition, positionCache>>
    /\ UNCHANGED <<bufferVars, outsideVars>>

\* buffers.filter((b) => !b.isPinned)
Unpinned(bufs) == SelectSeq(bufs, LAMBDA b : ~b.isPinned)

\* buffers.map((b) => ({ ...b, isActive: b.id === id }))
MarkActive(bufs, id) ==
    [i \in 1..Len(bufs) |-> [bufs[i] EXCEPT !.isActive = (bufs[i].id = id)]]

\* !b.isVirtual && !b.isDiff && !b.isImage && !b.isSQLite
IsRealFile(b) == ~b.isVirtual /\ ~b.isDiff /\ ~b.isImage /\ ~b.isSQLite

\* array.slice(0, n)
\* A slice that keeps every element.
KeepAll(s, n) == s

Take(s, n) == SubSeq(s, 1, Min(n, Len(s)))

\* s without entry i.
RemoveAt(s, i) == SubSeq(s, 1, i - 1) \o SubSeq(s, i + 1, Len(s))

\* --------------------------------------------------------- saveSessionToStore
\* No saveSessionToStore callback is waiting.
NoSave == [pending |-> FALSE, buffers |-> << >>, activeBufferId |-> NullId]

\* No saveSession call was made; NoPath stands for a null activeBufferPath.
NoSession == [rootFolderPath |-> NoPath, buffers |-> << >>, activeBufferPath |-> NoPath]

\* The arguments saveSessionToStore(buffers, activeBufferId) holds until its
\* callback runs, each buffer with the fields the callback reads.
SaveArguments(bufs, activeId) ==
    [pending |-> TRUE,
     buffers |-> [i \in 1..Len(bufs) |->
                    [id |-> bufs[i].id, path |-> bufs[i].path, name |-> bufs[i].name,
                     isPinned |-> bufs[i].isPinned, isVirtual |-> bufs[i].isVirtual,
                     isDiff |-> bufs[i].isDiff, isImage |-> bufs[i].isImage,
                     isSQLite |-> bufs[i].isSQLite]],
     activeBufferId |-> activeId]

\* saveSessionToStore(get().buffers, get().activeBufferId) on the store s.
ScheduleSave(s) == [s EXCEPT !.sessionSave = SaveArguments(s.buffers, s.activeBufferId)]

\* buffers.filter(real file).map((b) => ({path, name, isPinned}))
PersistableBuffers(bufs) ==
    LET real == SelectSeq(bufs, IsRealFile) IN
    [i \in 1..Len(real) |->
        [path |-> real[i].path, name |-> real[i].name, isPinned |-> real[i].isPinned]]

\* The path of buffers.find((b) => b.id === activeBufferId) when it is a real
\* file, and null otherwise.
ActiveBufferPath(bufs, activeId) ==
    LET i == FindIndex(bufs, activeId) IN
    IF i # 0 /\ IsRealFile(bufs[i]) THEN bufs[i].path ELSE NoPath

\* Whether the callback throws when it reads b.isVirtual of an undefined entry
\* that reorderBuffers left in the array.
SaveThrows(save) ==
    \E i \in 1..Len(save.buffers) :
       save.buffers[i].id = NullId /\ save.buffers[i].path = NoPath

\* What the callback of saveSessionToStore leaves in the session store.
SaveSessionFn(saved, root, save) ==
    IF root = NoPath \/ SaveThrows(save) THEN saved
    ELSE [rootFolderPath |-> root,
          buffers |-> PersistableBuffers(save.buffers),
          activeBufferPath |-> ActiveBufferPath(save.buffers, save.activeBufferId)]

\* --------------------------------------------------------------- openBuffer
NewBuffer(path, name, content, flags, diffData, clock) ==
    [id |-> generateBufferId(path, clock), path |-> path, name |-> name,
     content |-> content, isDirty |-> FALSE, isVirtual |-> flags.isVirtual,
     isPinned |-> FALSE, isImage |-> flags.isImage, isSQLite |-> flags.isSQLite,
     isDiff |-> flags.isDiff, isActive |-> TRUE, diffData |-> diffData,
     tokens |-> << >>]

\* ExistingFor with virtual buffers left out of the search.
ExistingForNonVirtual(bufs, path) ==
    IF \E i \in 1..Len(bufs) : bufs[i].path = path /\ ~bufs[i].isVirtual
    THEN CHOOSE i \in 1..Len(bufs) :
            /\ bufs[i].path = path /\ ~bufs[i].isVirtual
            /\ \A j \in 1..(i - 1) : ~(bufs[j].path = path /\ ~bufs[j].isVirtual)
    ELSE 0

\* "Check if already open": the buffer openBuffer reuses for `path`, as an index.
ExistingFor(bufs, path) == FindIndexByPath(bufs, path)

\* "Handle max tabs limit": whether the limit is reached.
AtTabLimit(bufs, max) == Len(Unpinned(bufs)) >= max

\* unpinnedBuffers[0] is undefined and lruBuffer.id throws a TypeError.
EvictionThrows(bufs, max) == AtTabLimit(bufs, max) /\ Len(Unpinned(bufs)) = 0

\* newBuffers after the max-tabs step (when it does not throw).
EvictForNew(bufs, max) ==
    IF AtTabLimit(bufs, max)
    THEN LET lruBuffer == Unpinned(bufs)[1]
         IN  SelectSeq(bufs, LAMBDA b : b.id # lruBuffer.id)
    ELSE bufs

\* openBuffer on the store s at clock value `clock`: the store afterwards, the
\* returned id (NullId when the call throws) and how the call ended.
OpenBufferFn(s, clock, path, name, content, flags, diffData) ==
    LET e == ExistingFor(s.buffers, path) IN
    IF e # 0
    THEN [store |-> [s EXCEPT !.buffers = MarkActive(s.buffers, s.buffers[e].id),
                              !.activeBufferId = s.buffers[e].id],
          ret |-> s.buffers[e].id, outcome |-> "existing"]
    ELSE IF EvictionThrows(s.buffers, s.maxOpenTabs)
    THEN [store |-> s, ret |-> NullId, outcome |-> "TypeError"]
    ELSE LET newBuffers == EvictForNew(s.buffers, s.maxOpenTabs)
             newBuffer == NewBuffer(path, name, content, flags, diffData, clock)
         IN  [store |->
                ScheduleSave(
                   [s EXCEPT !.buffers =
                                 Append([i \in 1..Len(newBuffers) |->
                                            [newBuffers[i] EXCEPT !.isActive = FALSE]],
                                        newBuffer),
                             !.activeBufferId = newBuffer.id]),
              ret |-> newBuffer.id, outcome |-> "created"]

\* Whether the call went on to "Track in recent files" and the extension check.
GateStarted(r, flags) ==
    /\ r.outcome = "created"
    /\ ~flags.isVirtual /\ ~flags.isDiff /\ ~flags.isImage /\ ~flags.isSQLite

\* The pending extension checks after an openBuffer call that ended as r.
GatesAfterOpen(g, r, path, flags) ==
    IF GateStarted(r, flags)
    THEN [g EXCEPT ![path] = Min(@ + 1, MaxPendingGates)]
    ELSE g

openBuffer(path, name, content, flags, diffData) ==
    /\ SetStore(OpenBufferFn(Store, now, path, name, content, flags, diffData).store)
    /\ UNCHANGED <<now, reopening, reloading, reloadSettled, savedSession>>
    /\ gates' = GatesAfterOpen(gates,
                    OpenBufferFn(Store, now, path, name, content, flags, diffData),
                    path, flags)
    /\ UNCHANGED <<gateStarts, installNeeded, rootFolderPath, gateFailures,
                   extensionVars, lspVars>>
    /\ EditorOverlayRenders

\* ---------------------------------------------------------- closeBufferForce
\* "Stop LSP for this file in background": the stops awaiting the import of
\* lsp-client after closeBufferForce closed closedBuffer (a further stop for a
\* path that has one pending is merged with it).
StopStarted(starts, closedBuffer) ==
    IF IsRealFile(closedBuffer) THEN starts \cup {closedBuffer.path} ELSE starts

CloseForceFn(s, bufferId) ==
    LET bufferIndex == FindIndex(s.buffers, bufferId) IN
    IF bufferIndex = 0 THEN s
    ELSE
      LET closedBuffer == s.buffers[bufferIndex]
          updatedHistory ==
              IF IsRealFile(closedBuffer)
              THEN Take(<<[path |-> closedBuffer.path, name |-> closedBuffer.name,
                           isPinned |-> closedBuffer.isPinned]>>
                        \o s.closedBuffersHistory,
                        MAX_CLOSED_BUFFERS_HISTORY)
              ELSE s.closedBuffersHistory
          newBuffers == SelectSeq(s.buffers, LAMBDA b : b.id # bufferId)
          newActiveId ==
              IF s.activeBufferId = bufferId
              THEN IF Len(newBuffers) > 0
                   THEN newBuffers[Min(bufferIndex, Len(newBuffers))].id
                   ELSE NullId
              ELSE s.activeBufferId
      IN  ScheduleSave([s EXCEPT !.buffers = MarkActive(newBuffers, newActiveId),
                                 !.activeBufferId = newActiveId,
                                 !.closedBuffersHistory = updatedHistory,
                                 !.stopStarts = StopStarted(@, closedBuffer)])

\* buffersToClose.forEach((buffer) => closeBufferForce(buffer.id))
RECURSIVE ForceCloseEach(_, _)
ForceCloseEach(s, toClose) ==
    IF toClose = << >> THEN s
    ELSE ForceCloseEach(CloseForceFn(s, Head(toClose).id), Tail(toClose))

closeBufferForce(bufferId) ==
    /\ SetStore(CloseForceFn(Store, bufferId))
    /\ UNCHANGED <<now, reopening, reloading, reloadSettled, savedSession>>
    /\ UNCHANGED outsideVars
    /\ EditorOverlayRenders

\* --------------------------------------------------------------- closeBuffer
\* "Check if buffer has unsaved changes"
\* CloseIsBlocked that lets a pinned dirty buffer be closed.
CloseIsBlockedUnlessPinned(buffer) == buffer.isDirty /\ ~buffer.isPinned

CloseIsBlocked(buffer) == buffer.isDirty

CloseBufferFn(s, bufferId) ==
    LET i == FindIndex(s.buffers, bufferId) IN
    IF i = 0 THEN s
    ELSE IF CloseIsBlocked(s.buffers[i])
    THEN [s EXCEPT !.pendingClose = [bufferId |-> bufferId, type |-> "single",
                                     keepBufferId |-> NullId]]
    ELSE CloseForceFn(s, bufferId)

closeBuffer(bufferId) ==
    /\ SetStore(CloseBufferFn(Store, bufferId))
    /\ UNCHANGED <<now, reopening, reloading, reloadSettled, savedSession>>
    /\ UNCHANGED outsideVars
    /\ EditorOverlayRenders

\* handleTabClose calls closeBuffer.
handleTabClose(bufferId) ==
    /\ SetStore(CloseBufferFn(Store, bufferId))
    /\ UNCHANGED <<now, reopening, reloading, reloadSettled, savedSession>>
    /\ UNCHANGED outsideVars
    /\ EditorOverlayRenders

\* --------------------------------------------------------- closeBuffersBatch
CloseBatchFn(s, bufferIds) ==
    LET kept == SelectSeq(s.buffers, LAMBDA b : b.id \notin bufferIds) IN
    IF bufferIds = {} THEN s
    ELSE ScheduleSave(
            IF s.activeBufferId \in bufferIds
            THEN IF Len(kept) > 0
                 THEN [s EXCEPT !.buffers = [kept EXCEPT ![1].isActive = TRUE],
                                !.activeBufferId = kept[1].id]
                 ELSE [s EXCEPT !.buffers = kept, !.activeBufferId = NullId]
            ELSE [s EXCEPT !.buffers = kept])

closeBuffersBatch(bufferIds) ==
    /\ SetStore(CloseBatchFn(Store, bufferIds))
    /\ UNCHANGED <<now, reopening, reloading, reloadSettled, savedSession>>
    /\ UNCHANGED outsideVars
    /\ EditorOverlayRenders

\* ------------------------------------------- setActiveBuffer, handleTabClick
SetActiveFn(s, bufferId) ==
    [s EXCEPT !.activeBufferId = bufferId,
              !.buffers = MarkActive(s.buffers, bufferId)]

setActiveBuffer(bufferId) ==
    /\ SetStore(SetActiveFn(Store, bufferId))
    /\ UNCHANGED <<now, reopening, reloading, reloadSettled, savedSession>>
    /\ UNCHANGED outsideVars
    /\ EditorOverlayRendersRestored(bufferId)

TabClickFn(s, bufferId) ==
    [s EXCEPT !.activeBufferId = bufferId,
              !.buffers = MarkActive(s.buffers, bufferId)]

handleTabClick(bufferId) ==
    /\ SetStore(TabClickFn(Store, bufferId))
    /\ UNCHANGED <<now, reopening, reloading, reloadSettled, savedSession>>
    /\ UNCHANGED outsideVars
    /\ EditorOverlayRendersRestored(bufferId)

\* ------------------------------------------------------- updateBufferContent
\* "Content hasn't changed and no diff data update, don't update"
\* ContentUpdateSkipped that never skips the write.
ContentAlwaysWritten(buffer, content, diffData) == FALSE

ContentUpdateSkipped(buffer, content, diffData) ==
    buffer.content = content /\ diffData = NoDiff

UpdateContentFn(s, bufferId, content, markDirty, diffData) ==
    LET i == FindIndex(s.buffers, bufferId) IN
    IF i = 0 \/ ContentUpdateSkipped(s.buffers[i], content, diffData)
    THEN s
    ELSE [s EXCEPT !.buffers[i] =
            [@ EXCEPT !.content = content,
                      !.diffData = IF diffData # NoDiff THEN diffData ELSE @,
                      !.isDirty = IF ~s.buffers[i].isVirtual THEN markDirty ELSE @]]

updateBufferContent(bufferId, content, markDirty, diffData) ==
    /\ SetStore(UpdateContentFn(Store, bufferId, content, markDirty, diffData))
    /\ UNCHANGED <<now, reopening, reloading, reloadSettled, savedSession>>
    /\ UNCHANGED outsideVars
    /\ EditorOverlayRenders

\* EditorOverlay.handleInput with the textarea as `widget`: commits its text
\* to the active buffer, writes the offset of its selection start to the
\* editor state and hands the text to tokenize; the render of the changed
\* stores follows.
CommitInput(widget) ==
    /\ SetStore(UpdateContentFn(Store, activeBufferId, widget.value, TRUE, NoDiff))
    /\ OverlayRenders(widget, widget.selectionStart,
                      SetCursorPositionCache(positionCache, activeBufferId,
                                             widget.selectionStart),
                      <<[from |-> "handleInput", text |-> widget.value]>>)
    /\ UNCHANGED <<now, reopening, reloading, reloadSettled, savedSession>>
    /\ UNCHANGED outsideVars

\* An input event of the textarea, which the user's edit left with the text
\* newContent and the caret at selectionStart: handleChange hands the text to
\* handleInput.
handleInput(newContent, selectionStart) ==
    /\ mounted
    /\ activeBufferId # NullId
    /\ textarea.attached
    /\ selectionStart \in 0..Len(newContent)
    /\ CommitInput([textarea EXCEPT !.value = newContent,
                                    !.dirty = TRUE,
                                    !.selectionStart = selectionStart,
                                    !.selectionEnd = selectionStart])

\* " ".repeat(tabSize)
RECURSIVE Spaces(_)
Spaces(tabSize) == IF tabSize = 0 THEN "" ELSE " " \o Spaces(tabSize - 1)

\* The textarea after handleKeyDown inserted the spaces of a Tab over the
\* selection and put the caret after them.
TabInserted(widget, tabSize) ==
    [widget EXCEPT
        !.value = SubSeq(widget.value, 1, widget.selectionStart)
                     \o Spaces(tabSize)
                     \o SubSeq(widget.value, widget.selectionEnd + 1,
                               Len(widget.value)),
        !.dirty = TRUE,
        !.selectionStart = widget.selectionStart + tabSize,
        !.selectionEnd = widget.selectionStart + tabSize]

\* EditorOverlay.handleKeyDown for Tab with neither Ctrl nor Meta held.
handleKeyDown(tabSize) ==
    /\ mounted
    /\ textarea.attached
    /\ Len(TabInserted(textarea, tabSize).value) <= MaxContentLen
    /\ IF activeBufferId # NullId
       THEN CommitInput(TabInserted(textarea, tabSize))
       ELSE /\ textarea' = TabInserted(textarea, tabSize)
            /\ tokenizeCalls' = << >>
            /\ UNCHANGED <<mounted, restoreTimers, cursorPosition, positionCache>>
            /\ UNCHANGED <<bufferVars, outsideVars>>

\* EditorOverlay.handleCursorChange after a select, keyup or click event that
\* left the selection of the textarea at selectionStart..selectionEnd.
handleCursorChange(selectionStart, selectionEnd) ==
    /\ mounted
    /\ textarea.attached
    /\ selectionStart <= selectionEnd
    /\ selectionEnd <= Len(textarea.value)
    /\ UNCHANGED <<bufferVars, outsideVars>>
    /\ IF activeBufferId # NullId
       THEN OverlayRenders([textarea EXCEPT !.selectionStart = selectionStart,
                                           !.selectionEnd = selectionEnd],
                          selectionStart,
                          SetCursorPositionCache(positionCache, activeBufferId,
                                                 selectionStart),
                          << >>)
       ELSE /\ textarea' = [textarea EXCEPT !.selectionStart = selectionStart,
                                            !.selectionEnd = selectionEnd]
            /\ tokenizeCalls' = << >>
            /\ UNCHANGED <<mounted, restoreTimers, cursorPosition, positionCache>>

UpdateTokensFn(s, bufferId, tokens) ==
    LET i == FindIndex(s.buffers, bufferId) IN
    IF i = 0 THEN s ELSE [s EXCEPT !.buffers[i].tokens = tokens]

updateBufferTokens(bufferId, tokens) ==
    /\ SetStore(UpdateTokensFn(Store, bufferId, tokens))
    /\ UNCHANGED <<now, reopening, reloading, reloadSettled, savedSession>>
    /\ UNCHANGED outsideVars
    /\ EditorOverlayRenders

MarkDirtyFn(s, bufferId, isDirty) ==
    LET i == FindIndex(s.buffers, bufferId) IN
    IF i = 0 THEN s ELSE [s EXCEPT !.buffers[i].isDirty = isDirty]

markBufferDirty(bufferId, isDirty) ==
    /\ SetStore(MarkDirtyFn(Store, bufferId, isDirty))
    /\ UNCHANGED <<now, reopening, reloading, reloadSettled, savedSession>>
    /\ UNCHANGED outsideVars
    /\ EditorOverlayRenders

\* -------------------------------------------------------------- handleTabPin
TabPinFn(s, bufferId) ==
    LET i == FindIndex(s.buffers, bufferId) IN
    ScheduleSave(IF i = 0 THEN s ELSE [s EXCEPT !.buffers[i].isPinned = ~@])

handleTabPin(bufferId) ==
    /\ SetStore(TabPinFn(Store, bufferId))
    /\ UNCHANGED <<now, reopening, reloading, reloadSettled, savedSession>>
    /\ UNCHANGED outsideVars
    /\ EditorOverlayRenders

\* ---------------------------------------------------------------- bulk closes
\* buffers.filter((b) => b.id !== keepBufferId && !b.isPinned)
OthersToClose(bufs, keepBufferId) ==
    SelectSeq(bufs, LAMBDA b : b.id # keepBufferId /\ ~b.isPinned)

\* buffers.filter((b) => !b.isPinned)
AllToClose(bufs) == SelectSeq(bufs, LAMBDA b : ~b.isPinned)

\* buffers.slice(bufferIndex + 1).filter((b) => !b.isPinned), for a bufferId
\* that is open.
ToRightToClose(bufs, bufferId) ==
    SelectSeq(SubSeq(bufs, FindIndex(bufs, bufferId) + 1, Len(bufs)),
              LAMBDA b : ~b.isPinned)

\* A find that sees no dirty buffer.
NoneDirty(toClose) == 0

\* buffersToClose.find((b) => b.isDirty), as an index; 0 when there is none.
FirstDirty(toClose) ==
    IF \E i \in 1..Len(toClose) : toClose[i].isDirty
    THEN CHOOSE i \in 1..Len(toClose) :
            /\ toClose[i].isDirty
            /\ \A j \in 1..(i - 1) : ~toClose[j].isDirty
    ELSE 0

\* The pendingClose record handleCloseTabsToRight(bufferId) stores when
\* dirtyBuffer blocks it.
ToRightPending(bufferId, dirtyBuffer) ==
    [bufferId |-> dirtyBuffer.id, type |-> "to-right", keepBufferId |-> NullId]

CloseOthersFn(s, keepBufferId) ==
    LET toClose == OthersToClose(s.buffers, keepBufferId)
        d == FirstDirty(toClose)
    IN  IF d # 0
        THEN [s EXCEPT !.pendingClose = [bufferId |-> toClose[d].id, type |-> "others",
                                         keepBufferId |-> keepBufferId]]
        ELSE ForceCloseEach(s, toClose)

CloseAllFn(s) ==
    LET toClose == AllToClose(s.buffers)
        d == FirstDirty(toClose)
    IN  IF d # 0
        THEN [s EXCEPT !.pendingClose = [bufferId |-> toClose[d].id, type |-> "all",
                                         keepBufferId |-> NullId]]
        ELSE ForceCloseEach(s, toClose)

CloseToRightFn(s, bufferId) ==
    IF FindIndex(s.buffers, bufferId) = 0 THEN s
    ELSE LET toClose == ToRightToClose(s.buffers, bufferId)
             d == FirstDirty(toClose)
         IN  IF d # 0
             THEN [s EXCEPT !.pendingClose = ToRightPending(bufferId, toClose[d])]
             ELSE ForceCloseEach(s, toClose)

handleCloseOtherTabs(keepBufferId) ==
    /\ SetStore(CloseOthersFn(Store, keepBufferId))
    /\ UNCHANGED <<now, reopening, reloading, reloadSettled, savedSession>>
    /\ UNCHANGED outsideVars
    /\ EditorOverlayRenders

handleCloseAllTabs ==
    /\ SetStore(CloseAllFn(Store))
    /\ UNCHANGED <<now, reopening, reloading, reloadSettled, savedSession>>
    /\ UNCHANGED outsideVars
    /\ EditorOverlayRenders

handleCloseTabsToRight(bufferId) ==
    /\ SetStore(CloseToRightFn(Store, bufferId))
    /\ UNCHANGED <<now, reopening, reloading, reloadSettled, savedSession>>
    /\ UNCHANGED outsideVars
    /\ EditorOverlayRenders

\* ------------------------------------------------- confirm / cancel / set
ConfirmFn(s, p) ==
    LET c == [s EXCEPT !.pendingClose = NoPending] IN
    CASE p.type = "single" -> CloseForceFn(c, p.bufferId)
      [] p.type = "others" ->
            IF p.keepBufferId # NullId
            THEN ForceCloseEach(c, OthersToClose(c.buffers, p.keepBufferId))
            ELSE c
      [] p.type = "all" -> ForceCloseEach(c, AllToClose(c.buffers))
      [] p.type = "to-right" ->
            IF FindIndex(c.buffers, p.bufferId) # 0
            THEN ForceCloseEach(c, ToRightToClose(c.buffers, p.bufferId))
            ELSE c
      [] OTHER -> c

ConfirmCloseFn(s) == IF s.pendingClose = NoPending THEN s ELSE ConfirmFn(s, s.pendingClose)

confirmCloseWithoutSaving ==
    /\ SetStore(ConfirmCloseFn(Store))
    /\ UNCHANGED <<now, reopening, reloading, reloadSettled, savedSession>>
    /\ UNCHANGED outsideVars
    /\ EditorOverlayRenders

\* A cancel that performs the pending close.
CancelAsConfirm(s) == ConfirmCloseFn(s)

CancelPendingFn(s) == [s EXCEPT !.pendingClose = NoPending]

cancelPendingClose ==
    /\ SetStore(CancelPendingFn(Store))
    /\ UNCHANGED <<now, reopening, reloading, reloadSettled, savedSession>>
    /\ UNCHANGED outsideVars
    /\ EditorOverlayRenders

SetPendingFn(s, pending) == [s EXCEPT !.pendingClose = pending]

setPendingClose(pending) ==
    /\ SetStore(SetPendingFn(Store, pending))
    /\ UNCHANGED <<now, reopening, reloading, reloadSettled, savedSession>>
    /\ UNCHANGED outsideVars
    /\ EditorOverlayRenders

\* ------------------------------------------------------------ reorderBuffers
\* The slot Array.prototype.splice leaves when it inserts `undefined`.
UndefinedEntry ==
    [NewBuffer(NoPath, NoPath, "undefined", FileFlags, NoDiff, -1)
        EXCEPT !.id = NullId, !.isActive = FALSE]

\* The start position splice(start, ...) uses on an array of length len.
SpliceStart(len, start) ==
    IF start < 0
    THEN IF len + start > 0 THEN len + start ELSE 0
    ELSE Min(start, len)

\* const [removed] = result.splice(startIndex, 1); result.splice(endIndex, 0, removed)
ReorderFn(s, startIndex, endIndex) ==
    LET bufs == s.buffers
        a == SpliceStart(Len(bufs), startIndex)
        removed == IF a < Len(bufs) THEN bufs[a + 1] ELSE UndefinedEntry
        rest == IF a < Len(bufs)
                THEN SubSeq(bufs, 1, a) \o SubSeq(bufs, a + 2, Len(bufs))
                ELSE bufs
        b == SpliceStart(Len(rest), endIndex)
    IN  ScheduleSave([s EXCEPT !.buffers =
            SubSeq(rest, 1, b) \o <<removed>> \o SubSeq(rest, b + 1, Len(rest))])

reorderBuffers(startIndex, endIndex) ==
    /\ SetStore(ReorderFn(Store, startIndex, endIndex))
    /\ UNCHANGED <<now, reopening, reloading, reloadSettled, savedSession>>
    /\ UNCHANGED outsideVars
    /\ EditorOverlayRenders

\* ------------------------------------- switchToNextBuffer / PreviousBuffer
\* (currentIndex + 1) % buffers.length, 0-based.
NextIndex(bufs, active) == ((FindIndex(bufs, active) - 1) + 1) % Len(bufs)

\* (currentIndex - 1 + buffers.length) % buffers.length, 0-based; -1 % 1 is -0,
\* which indexes entry 0.
PrevIndex(bufs, active) ==
    LET n == (FindIndex(bufs, active) - 1) - 1 + Len(bufs)
    IN  IF n < 0 THEN 0 ELSE n % Len(bufs)

SwitchNextFn(s) ==
    IF Len(s.buffers) = 0 THEN s
    ELSE SetActiveFn(s, s.buffers[NextIndex(s.buffers, s.activeBufferId) + 1].id)

SwitchPrevFn(s) ==
    IF Len(s.buffers) = 0 THEN s
    ELSE SetActiveFn(s, s.buffers[PrevIndex(s.buffers, s.activeBufferId) + 1].id)

switchToNextBuffer ==
    /\ SetStore(SwitchNextFn(Store))
    /\ UNCHANGED <<now, reopening, reloading, reloadSettled, savedSession>>
    /\ UNCHANGED outsideVars
    /\ IF Len(buffers) = 0
       THEN EditorOverlayRenders
       ELSE EditorOverlayRendersRestored(SwitchNextFn(Store).activeBufferId)

switchToPreviousBuffer ==
    /\ SetStore(SwitchPrevFn(Store))
    /\ UNCHANGED <<now, reopening, reloading, reloadSettled, savedSession>>
    /\ UNCHANGED outsideVars
    /\ IF Len(buffers) = 0
       THEN EditorOverlayRenders
       ELSE EditorOverlayRendersRestored(SwitchPrevFn(Store).activeBufferId)

\* ------------------------------------------------------------- setMaxOpenTabs
SetMaxFn(s, max) == [s EXCEPT !.maxOpenTabs = max]

setMaxOpenTabs(max) ==
    /\ SetStore(SetMaxFn(Store, max))
    /\ UNCHANGED <<now, reopening, reloading, reloadSettled, savedSession>>
    /\ UNCHANGED outsideVars
    /\ EditorOverlayRenders

\* ------------------------------------------------------- reloadBufferFromDisk
NoReload == [bufferId |-> NullId, path |-> NoPath, content |-> "", isDirty |-> FALSE]

\* No reloadBufferFromDisk call has settled yet.
NoReloadSettled == [kind |-> "none", read |-> "none"]

\* The promise of reloadBufferFromDisk resolved: without a read ("skipped"),
\* after the read succeeded ("done") or after it failed ("failed").
ReloadResolved(read) == [kind |-> "resolved", read |-> read]

\* Whether reloadBufferFromDisk(bufferId) goes on to read the file.
ReloadReads(s, bufferId) ==
    LET i == FindIndex(s.buffers, bufferId) IN
    i # 0 /\ ~s.buffers[i].isVirtual /\ ~s.buffers[i].isImage /\ ~s.buffers[i].isSQLite

\* The call up to `await readFileContent(buffer.path)`, holding the buffer that
\* find returned. One call is in flight at a time.
reloadBufferFromDisk(bufferId) ==
    /\ reloading = NoReload
    /\ IF ReloadReads(Store, bufferId)
       THEN /\ reloading' = [bufferId |-> bufferId,
                             path |-> buffers[FindIndex(buffers, bufferId)].path,
                             content |-> buffers[FindIndex(buffers, bufferId)].content,
                             isDirty |-> buffers[FindIndex(buffers, bufferId)].isDirty]
            /\ UNCHANGED reloadSettled
       ELSE /\ reloading' = NoReload
            /\ reloadSettled' = ReloadResolved("skipped")
    /\ UNCHANGED <<buffers, activeBufferId, maxOpenTabs, pendingClose,
                   closedBuffersHistory, now, reopening, sessionSave, savedSession,
                   stopStarts>>
    /\ UNCHANGED outsideVars
    /\ EditorOverlayRenders

\* The store after readFileContent resolved with `content`:
\* updateBufferContent(bufferId, content, false).
ReloadedFn(s, bufferId, content) == UpdateContentFn(s, bufferId, content, FALSE, NoDiff)

\* readFileContent resolved with `content`.
reloadResolved(content) ==
    /\ reloading # NoReload
    /\ SetStore(ReloadedFn(Store, reloading.bufferId, content))
    /\ reloading' = NoReload
    /\ reloadSettled' = ReloadResolved("done")
    /\ UNCHANGED <<now, reopening, savedSession>>
    /\ UNCHANGED outsideVars
    /\ EditorOverlayRenders

\* A catch block that writes the buffer as clean.
reloadRejectedMarksClean ==
    /\ reloading # NoReload
    /\ SetStore(MarkDirtyFn(Store, reloading.bufferId, FALSE))
    /\ reloading' = NoReload
    /\ reloadSettled' = ReloadResolved("failed")
    /\ UNCHANGED <<now, reopening, savedSession>>
    /\ UNCHANGED outsideVars
    /\ EditorOverlayRenders

\* readFileContent rejected: the error is logged.
reloadRejected ==
    /\ reloading # NoReload
    /\ reloading' = NoReload
    /\ reloadSettled' = ReloadResolved("failed")
    /\ UNCHANGED <<buffers, activeBufferId, maxOpenTabs, pendingClose,
                   closedBuffersHistory, now, reopening, sessionSave, savedSession,
                   stopStarts>>
    /\ UNCHANGED outsideVars
    /\ EditorOverlayRenders

\* ------------------------------------------------------------ reopenClosedTab
NoReopen == [path |-> NoPath, name |-> NoPath, isPinned |-> FALSE]

\* The call up to `await readFileContent(closedBuffer.path)`: the head of the
\* history is removed. One call is in flight at a time.
ReopenBeginFn(s) ==
    IF Len(s.closedBuffersHistory) = 0 THEN s
    ELSE [s EXCEPT !.closedBuffersHistory = Tail(s.closedBuffersHistory)]

reopenClosedTab ==
    /\ reopening = NoReopen
    /\ reopening' = IF Len(closedBuffersHistory) = 0 THEN NoReopen
                    ELSE Head(closedBuffersHistory)
    /\ SetStore(ReopenBeginFn(Store))
    /\ UNCHANGED <<now, reloading, reloadSettled, savedSession>>
    /\ UNCHANGED outsideVars
    /\ EditorOverlayRenders

\* "Restore pinned state if it was pinned": handleTabPin(bufferId) on the
\* store openBuffer left.
RestorePinned(s, bufferId, closedBuffer) ==
    IF closedBuffer.isPinned THEN TabPinFn(s, bufferId) ELSE s

\* The rest of reopenClosedTab once readFileContent resolved with `content`:
\* openBuffer, then the pin restore. A TypeError thrown by openBuffer is caught
\* and logged.
ReopenResolvedFn(s, clock, closedBuffer, content) ==
    LET r == OpenBufferFn(s, clock, closedBuffer.path, closedBuffer.name, content,
                          FileFlags, NoDiff)
    IN  IF r.outcome = "TypeError" THEN s
        ELSE RestorePinned(r.store, r.ret, closedBuffer)

reopenResolved(content) ==
    /\ reopening # NoReopen
    /\ SetStore(ReopenResolvedFn(Store, now, reopening, content))
    /\ reopening' = NoReopen
    /\ UNCHANGED <<now, reloading, reloadSettled, savedSession>>
    /\ gates' = GatesAfterOpen(gates,
                    OpenBufferFn(Store, now, reopening.path, reopening.name, content,
                                 FileFlags, NoDiff),
                    reopening.path, FileFlags)
    /\ UNCHANGED <<gateStarts, installNeeded, rootFolderPath, gateFailures,
                   extensionVars, lspVars>>
    /\ EditorOverlayRenders

\* readFileContent rejected: the warning is logged.
reopenRejected ==
    /\ reopening # NoReopen
    /\ reopening' = NoReopen
    /\ UNCHANGED <<buffers, activeBufferId, maxOpenTabs, pendingClose,
                   closedBuffersHistory, now, reloading, reloadSettled,
                   sessionSave, savedSession,
                   stopStarts>>
    /\ UNCHANGED outsideVars
    /\ EditorOverlayRenders

\* ------------------------------------------- the saveSessionToStore callback
\* import(file-system store).then(...): reads rootFolderPath and, when a folder
\* is open, calls saveSession with the arguments the call was made with.
sessionSaveCallback ==
    /\ sessionSave.pending
    /\ savedSession' = SaveSessionFn(savedSession, rootFolderPath, sessionSave)
    /\ sessionSave' = NoSave
    /\ UNCHANGED <<buffers, activeBufferId, maxOpenTabs, pendingClose,
                   closedBuffersHistory, now, reopening, reloading, reloadSettled,
                   stopStarts>>
    /\ UNCHANGED outsideVars
    /\ EditorOverlayRenders

\* ------------------------------------------------------------------- clock
\* Date.now() advances between two operations.
Tick ==
    /\ now < MaxClock
    /\ now' = now + 1
    /\ UNCHANGED <<buffers, activeBufferId, maxOpenTabs, pendingClose,
                   closedBuffersHistory, reopening, reloading, reloadSettled,
                   sessionSave, savedSession,
                   stopStarts>>
    /\ UNCHANGED outsideVars
    /\ EditorOverlayRenders

\* --------------------------------------------------------- extension store
\* The manifests loadAvailableExtensions defines inline, in the order of the
\* Map they are put in: id, displayName and the extensions of each language.
ManifestTypeScript ==
    [id |-> "athas.typescript", displayName |-> "TypeScript",
     languages |-> << << <<".", "t", "s">>, <<".", "t", "s", "x">>,
                         <<".", "m", "t", "s">>, <<".", "c", "t", "s">> >>,
                      << <<".", "j", "s">>, <<".", "j", "s", "x">>,
                         <<".", "m", "j", "s">>, <<".", "c", "j", "s">> >> >>]
ManifestRust ==
    [id |-> "athas.rust", displayName |-> "Rust",
     languages |-> << << <<".", "r", "s">> >> >>]
Manifests == <<ManifestTypeScript, ManifestRust>>
ExtensionIds == {Manifests[i].id : i \in 1..Len(Manifests)}

\* toLowerCase, on one character.
UpperCase == <<"A", "B", "C", "D", "E", "F", "G", "H", "I", "J", "K", "L", "M",
               "N", "O", "P", "Q", "R", "S", "T", "U", "V", "W", "X", "Y", "Z">>
LowerCase == <<"a", "b", "c", "d", "e", "f", "g", "h", "i", "j", "k", "l", "m",
               "n", "o", "p", "q", "r", "s", "t", "u", "v", "w", "x", "y", "z">>
ToLowerChar(c) ==
    IF \E i \in 1..Len(UpperCase) : UpperCase[i] = c
    THEN LowerCase[CHOOSE i \in 1..Len(UpperCase) : UpperCase[i] = c]
    ELSE c

\* filePath.split(".").pop()?.toLowerCase(): what follows the last "." (the
\* whole path when it has none), in lower case.
LastDot(path) ==
    IF \E i \in 1..Len(path) : path[i] = "."
    THEN CHOOSE i \in 1..Len(path) :
            path[i] = "." /\ \A j \in (i + 1)..Len(path) : path[j] # "."
    ELSE 0
FileExtensionOf(path) ==
    LET ext == SubSeq(path, LastDot(path) + 1, Len(path))
    IN  [i \in 1..Len(ext) |-> ToLowerChar(ext[i])]

\* Whether one of the manifest's languages lists fileExt.
ManifestHasExtension(manifest, fileExt) ==
    \E l \in 1..Len(manifest.languages) :
       \E e \in 1..Len(manifest.languages[l]) : manifest.languages[l][e] = fileExt

\* getExtensionForFile: the index in `available` of the first extension with a
\* language that lists "." + ext, 0 for undefined.
getExtensionForFile(available, filePath) ==
    LET ext == FileExtensionOf(filePath)
        fileExt == <<".">> \o ext
        Matches(i) == ManifestHasExtension(available[i].manifest, fileExt)
    IN  IF ext = << >> THEN 0
        ELSE IF \E i \in 1..Len(available) : Matches(i)
        THEN CHOOSE i \in 1..Len(available) :
                Matches(i) /\ \A j \in 1..(i - 1) : ~Matches(j)
        ELSE 0

\* isExtensionInstalled
isExtensionInstalled(installed, extensionId) == extensionId \in installed

\* loadAvailableExtensions has no await: it runs to its end in one step.
LoadedExtensions(installed) ==
    [i \in 1..Len(Manifests) |->
        [manifest |-> Manifests[i],
         isInstalled |-> Manifests[i].id \in installed,
         isInstalling |-> FALSE]]

loadAvailableExtensions ==
    /\ availableExtensions' = LoadedExtensions(installedExtensions)
    /\ UNCHANGED <<installedExtensions, loadingInstalled, hostInstalled,
                   extensionCalls>>
    /\ UNCHANGED <<bufferVars, overlayVars, gateVars, lspVars>>

\* loadInstalledExtensions up to `await invoke("list_installed_extensions_new")`.
\* One call is in flight at a time.
loadInstalledExtensions ==
    /\ ~loadingInstalled
    /\ loadingInstalled' = TRUE
    /\ UNCHANGED <<availableExtensions, installedExtensions, hostInstalled,
                   extensionCalls>>
    /\ UNCHANGED <<bufferVars, overlayVars, gateVars, lspVars>>

\* The host answered with the ids of `installed`.
loadInstalledResolved(installed) ==
    /\ loadingInstalled
    /\ installedExtensions' = installed
    /\ loadingInstalled' = FALSE
    /\ availableExtensions' =
          [i \in 1..Len(availableExtensions) |->
              [availableExtensions[i] EXCEPT
                  !.isInstalled = availableExtensions[i].manifest.id \in installed]]
    /\ UNCHANGED <<hostInstalled, extensionCalls>>
    /\ UNCHANGED <<bufferVars, overlayVars, gateVars, lspVars>>

\* The host call failed: the error is logged.
loadInstalledRejected ==
    /\ loadingInstalled
    /\ loadingInstalled' = FALSE
    /\ UNCHANGED <<availableExtensions, installedExtensions, hostInstalled,
                   extensionCalls>>
    /\ UNCHANGED <<bufferVars, overlayVars, gateVars, lspVars>>

\* state.availableExtensions.get(extensionId), as an index; 0 for undefined.
ExtensionIndex(available, extensionId) ==
    IF \E i \in 1..Len(available) : available[i].manifest.id = extensionId
    THEN CHOOSE i \in 1..Len(available) : available[i].manifest.id = extensionId
    ELSE 0

\* "Update available extensions with installation status"
WithInstallationStatus(available, installed) ==
    [i \in 1..Len(available) |->
        [available[i] EXCEPT !.isInstalled = available[i].manifest.id \in installed]]

\* installExtension(extensionId) up to `await invoke("install_extension_from_url")`;
\* it throws at once for an id the registry does not hold. The progress and the
\* error text shown for an entry are outside this model.
installExtension(extensionId) ==
    /\ Len(extensionCalls) < MaxExtensionCalls
    /\ LET e == ExtensionIndex(availableExtensions, extensionId) IN
       IF e = 0
       THEN UNCHANGED <<availableExtensions, extensionCalls>>
       ELSE /\ availableExtensions' =
                  [availableExtensions EXCEPT ![e].isInstalling = TRUE]
            /\ extensionCalls' =
                  Append(extensionCalls,
                         [op |-> "install", extensionId |-> extensionId, pc |-> "invoke"])
    /\ UNCHANGED <<installedExtensions, loadingInstalled, hostInstalled>>
    /\ UNCHANGED <<bufferVars, overlayVars, gateVars, lspVars>>

\* uninstallExtension(extensionId) up to `await invoke("uninstall_extension_new")`.
uninstallExtension(extensionId) ==
    /\ Len(extensionCalls) < MaxExtensionCalls
    /\ extensionCalls' =
          Append(extensionCalls,
                 [op |-> "uninstall", extensionId |-> extensionId, pc |-> "invoke"])
    /\ UNCHANGED <<availableExtensions, installedExtensions, loadingInstalled,
                   hostInstalled>>
    /\ UNCHANGED <<bufferVars, overlayVars, gateVars, lspVars>>

\* The host installed or uninstalled the extension of call i: the call goes
\* on to `await get().actions.loadInstalledExtensions()`.
extensionInvokeResolved(i) ==
    /\ i \in 1..Len(extensionCalls)
    /\ extensionCalls[i].pc = "invoke"
    /\ hostInstalled' = IF extensionCalls[i].op = "install"
                        THEN hostInstalled \cup {extensionCalls[i].extensionId}
                        ELSE hostInstalled \ {extensionCalls[i].extensionId}
    /\ extensionCalls' = [extensionCalls EXCEPT ![i].pc = "reload"]
    /\ UNCHANGED <<availableExtensions, installedExtensions, loadingInstalled>>
    /\ UNCHANGED <<bufferVars, overlayVars, gateVars, lspVars>>

\* The host call of call i failed: installExtension clears isInstalling; both
\* throw the error again.
extensionInvokeRejected(i) ==
    /\ i \in 1..Len(extensionCalls)
    /\ extensionCalls[i].pc = "invoke"
    /\ LET e == ExtensionIndex(availableExtensions, extensionCalls[i].extensionId) IN
       availableExtensions' =
          IF extensionCalls[i].op = "install" /\ e # 0
          THEN [availableExtensions EXCEPT ![e].isInstalling = FALSE]
          ELSE availableExtensions
    /\ extensionCalls' = RemoveAt(extensionCalls, i)
    /\ UNCHANGED <<installedExtensions, loadingInstalled, hostInstalled>>
    /\ UNCHANGED <<bufferVars, overlayVars, gateVars, lspVars>>

\* The entries after the loadInstalledExtensions call of an install or
\* uninstall returned: installExtension writes isInstalled = true and
\* uninstallExtension isInstalled = false on the entry of the extension.
AfterReload(available, call) ==
    LET e == ExtensionIndex(available, call.extensionId) IN
    IF e = 0 THEN available
    ELSE IF call.op = "install"
    THEN [available EXCEPT ![e].isInstalling = FALSE, ![e].isInstalled = TRUE]
    ELSE [available EXCEPT ![e].isInstalled = FALSE]

\* The loadInstalledExtensions call of call i returned, the host having
\* answered with its list (ok) or failed, which loadInstalledExtensions logs;
\* the call then writes its entry and resolves.
extensionReloaded(i, ok) ==
    /\ i \in 1..Len(extensionCalls)
    /\ extensionCalls[i].pc = "reload"
    /\ installedExtensions' = IF ok THEN hostInstalled ELSE installedExtensions
    /\ availableExtensions' =
          AfterReload(IF ok
                      THEN WithInstallationStatus(availableExtensions, hostInstalled)
                      ELSE availableExtensions,
                      extensionCalls[i])
    /\ extensionCalls' = RemoveAt(extensionCalls, i)
    /\ UNCHANGED <<loadingInstalled, hostInstalled>>
    /\ UNCHANGED <<bufferVars, overlayVars, gateVars, lspVars>>

\* ----------------------------------------------- openBuffer: extension check
\* What the callback of import("@/extensions/registry/extension-store") does for
\* `path`: nothing, the start of the LSP import chain, or one event.
GateOutcome(available, installed, path) ==
    LET e == getExtensionForFile(available, path) IN
    IF e = 0 THEN [kind |-> "none"]
    ELSE IF isExtensionInstalled(installed, available[e].manifest.id)
    THEN [kind |-> "start", filePath |-> path]
    ELSE [kind |-> "install-needed",
          detail |-> [extensionId |-> available[e].manifest.id,
                      extensionName |-> available[e].manifest.displayName,
                      filePath |-> path]]

\* A failure that reached a .catch of openBuffer and was logged, and one that
\* no handler was attached for.
Logged(error) == [error |-> error, handler |-> "logged"]
Unhandled(error) == [error |-> error, handler |-> "unhandled"]

\* The modules the LSP start of the extension check imports before it calls
\* startForFile.
GateModules == {"lsp-client", "file-system store"}

\* Where a failure inside the LSP start of the extension check ends: the import
\* of lsp-client is followed by .catch; the promise of the import of the
\* file-system store, which startForFile settles, is not returned to it.
GateStartFailure(error, module) ==
    IF module = "lsp-client" THEN Logged(error) ELSE Unhandled(error)

\* import("@/extensions/registry/extension-store") failed: the outer .catch
\* logs the error.
gateImportRejected(path) ==
    /\ gates[path] > 0
    /\ gates' = [gates EXCEPT ![path] = @ - 1]
    /\ gateFailures' = gateFailures \cup {Logged("import error")}
    /\ UNCHANGED <<gateStarts, installNeeded, rootFolderPath>>
    /\ UNCHANGED <<bufferVars, overlayVars, extensionVars, lspVars>>

\* The import of `module` failed in the LSP start of the check of `path`.
gateStartImportRejected(path, module) ==
    /\ gateStarts[path] > 0
    /\ gateStarts' = [gateStarts EXCEPT ![path] = @ - 1]
    /\ gateFailures' = gateFailures \cup {GateStartFailure("import error", module)}
    /\ UNCHANGED <<gates, installNeeded, rootFolderPath>>
    /\ UNCHANGED <<bufferVars, overlayVars, extensionVars, lspVars>>

\* The callback runs for one pending check of `path`.
extensionGate(path) ==
    /\ gates[path] > 0
    /\ gates' = [gates EXCEPT ![path] = @ - 1]
    /\ LET o == GateOutcome(availableExtensions, installedExtensions, path) IN
       /\ gateStarts' = IF o.kind = "start"
                        THEN [gateStarts EXCEPT ![path] = Min(@ + 1, MaxPendingGates)]
                        ELSE gateStarts
       /\ installNeeded' = IF o.kind = "install-needed"
                           THEN installNeeded \cup {o.detail}
                           ELSE installNeeded
    /\ UNCHANGED <<rootFolderPath, gateFailures>>
    /\ UNCHANGED <<bufferVars, overlayVars, extensionVars, lspVars>>

\* useFileSystemStore.getState().rootFolderPath || path
GateWorkspace(root, path) == IF root # NoPath THEN root ELSE path

\* An LspClient call that has just been made.
NewLspCall(op, filePath, workspacePath) ==
    [op |-> op, filePath |-> filePath, workspacePath |-> workspacePath,
     pc |-> "import", caller |-> "direct"]

\* The imports of lsp-client and of the file-system store have resolved:
\* lspClient.startForFile(path, workspacePath) is called.
gateStartsLsp(path) ==
    /\ gateStarts[path] > 0
    /\ Len(lspCalls) < MaxLspCalls
    /\ gateStarts' = [gateStarts EXCEPT ![path] = @ - 1]
    /\ lspCalls' = Append(lspCalls,
                          [NewLspCall("startForFile", path,
                                      GateWorkspace(rootFolderPath, path))
                              EXCEPT !.caller = "openBuffer"])
    /\ UNCHANGED <<gates, installNeeded, rootFolderPath, gateFailures>>
    /\ UNCHANGED <<activeLanguageServers, spawned, lspSettled>>
    /\ UNCHANGED <<bufferVars, overlayVars, extensionVars>>

\* A folder is opened or closed in the file-system store.
setRootFolder(root) ==
    /\ rootFolderPath' = root
    /\ UNCHANGED <<gates, gateStarts, installNeeded, gateFailures>>
    /\ UNCHANGED <<bufferVars, overlayVars, extensionVars, lspVars>>

\* -------------------------------------------------------------- LSP client
\* Workspace folders.
WorkspaceW == <<"w">>
WorkspaceV == <<"v">>
WorkspaceWX == <<"w", ":", "x">>
Workspaces == {WorkspaceW, WorkspaceV, WorkspaceWX}

\* What the extension registry answers for a file (the registry is outside
\* the sources at hand): "m.ts" and "n.ts" have the language "ts" and a server
\* path, "k.js" has the language "js" and no server path, other files nothing.
NoLanguage == << >>
NoServer == "undefined"
LanguageTs == <<"t", "s">>
LanguageJs == <<"j", "s">>
Languages == {LanguageTs, LanguageJs}

\* extensionRegistry.getLanguageId(filePath) || undefined
getLanguageId(filePath) ==
    LET ext == FileExtensionOf(filePath) IN
    IF ext = <<"t", "s">> THEN LanguageTs
    ELSE IF ext = <<"j", "s">> THEN LanguageJs
    ELSE NoLanguage

\* extensionRegistry.getLspServerPath(filePath) || undefined
getLspServerPath(filePath) ==
    IF FileExtensionOf(filePath) = <<"t", "s">> THEN "typescript-language-server"
    ELSE NoServer

\* `${workspacePath}:${languageId}`
ServerKey(workspacePath, languageId) == workspacePath \o <<":">> \o languageId

\* key.startsWith(prefix)
StartsWith(key, prefix) ==
    Len(prefix) <= Len(key) /\ SubSeq(key, 1, Len(prefix)) = prefix

\* The pairs the process host counts spawn requests for: a workspace (a folder,
\* or the file itself when no folder is open) and a language or none.
SpawnPairs == (Workspaces \cup AllPaths) \X (Languages \cup {NoLanguage})

\* No LspClient call has settled yet.
NothingSettled == [op |-> "none", kind |-> "none", value |-> "none"]

\* A call that resolved, and a call that rejected with `error`.
Resolved(op, value) == [op |-> op, kind |-> "resolved", value |-> value]
Rejected(op, error) == [op |-> op, kind |-> "rejected", value |-> error]

\* "Check if this language server is already running": whether the call
\* returns without asking the host.
AlreadyRunning(active, workspacePath, filePath) ==
    LET serverPath == getLspServerPath(filePath)
        languageId == getLanguageId(filePath)
    IN  /\ serverPath # NoServer
        /\ languageId # NoLanguage
        /\ ServerKey(workspacePath, languageId) \in active

\* The spawn requests counted after one more for (workspacePath, languageId).
SpawnRequested(sp, workspacePath, languageId) ==
    [sp EXCEPT ![<<workspacePath, languageId>>] = Min(@ + 1, MaxSpawned)]

\* A start that records no session.
TrackNothing(active, workspacePath, languageId) == active

\* "Track this language server"
TrackServer(active, workspacePath, languageId) ==
    IF languageId # NoLanguage
    THEN active \cup {ServerKey(workspacePath, languageId)}
    ELSE active

\* start(workspacePath, filePath) up to its first await: the import of the
\* registry when a file is given, the host call otherwise.
start(workspacePath, filePath) ==
    /\ Len(lspCalls) < MaxLspCalls
    /\ IF filePath # NoPath
       THEN /\ lspCalls' = Append(lspCalls, NewLspCall("start", filePath, workspacePath))
            /\ UNCHANGED spawned
       ELSE /\ lspCalls' = Append(lspCalls,
                              [NewLspCall("start", filePath, workspacePath)
                                  EXCEPT !.pc = "invoke"])
            /\ spawned' = SpawnRequested(spawned, workspacePath, NoLanguage)
    /\ UNCHANGED <<activeLanguageServers, lspSettled>>
    /\ UNCHANGED <<bufferVars, overlayVars, gateVars, extensionVars>>

\* startForFile(filePath, workspacePath) up to the import of the registry.
startForFile(filePath, workspacePath) ==
    /\ Len(lspCalls) < MaxLspCalls
    /\ lspCalls' = Append(lspCalls, NewLspCall("startForFile", filePath, workspacePath))
    /\ UNCHANGED <<activeLanguageServers, spawned, lspSettled>>
    /\ UNCHANGED <<bufferVars, overlayVars, gateVars, extensionVars>>

\* The import resolved for call i of start or startForFile: the call returns
\* when the server is already running, and asks the host to spawn it otherwise.
lspImported(i) ==
    /\ i \in 1..Len(lspCalls)
    /\ lspCalls[i].pc = "import"
    /\ LET call == lspCalls[i] IN
       IF AlreadyRunning(activeLanguageServers, call.workspacePath, call.filePath)
       THEN /\ lspCalls' = RemoveAt(lspCalls, i)
            /\ lspSettled' = Resolved(call.op, "undefined")
            /\ UNCHANGED spawned
       ELSE /\ lspCalls' = [lspCalls EXCEPT ![i].pc = "invoke"]
            /\ spawned' = SpawnRequested(spawned, call.workspacePath,
                                         getLanguageId(call.filePath))
            /\ UNCHANGED lspSettled
    /\ UNCHANGED activeLanguageServers
    /\ UNCHANGED <<bufferVars, overlayVars, gateVars, extensionVars>>

\* The language a call awaiting the host tracks (none for start without a file).
CallLanguage(call) ==
    IF call.filePath # NoPath THEN getLanguageId(call.filePath) ELSE NoLanguage

\* invoke("lsp_start" / "lsp_start_for_file") resolved for call i.
lspInvokeResolved(i) ==
    /\ i \in 1..Len(lspCalls)
    /\ lspCalls[i].pc = "invoke"
    /\ LET call == lspCalls[i] IN
       /\ activeLanguageServers' =
             TrackServer(activeLanguageServers, call.workspacePath, CallLanguage(call))
       /\ lspSettled' = Resolved(call.op, "undefined")
    /\ lspCalls' = RemoveAt(lspCalls, i)
    /\ UNCHANGED spawned
    /\ UNCHANGED <<bufferVars, overlayVars, gateVars, extensionVars>>

\* The rejection of a startForFile call that openBuffer made ends where the
\* failures of the promise of the file-system store import end; the rejection
\* of any other call goes to its caller.
RejectionReaches(failures, call, error) ==
    IF call.caller = "openBuffer"
    THEN failures \cup {GateStartFailure(error, "file-system store")}
    ELSE failures

\* The import of the extension registry failed for call i of start or
\* startForFile: the error is logged and thrown again.
lspImportRejected(i) ==
    /\ i \in 1..Len(lspCalls)
    /\ lspCalls[i].pc = "import"
    /\ lspSettled' = Rejected(lspCalls[i].op, "import error")
    /\ gateFailures' = RejectionReaches(gateFailures, lspCalls[i], "import error")
    /\ lspCalls' = RemoveAt(lspCalls, i)
    /\ UNCHANGED <<activeLanguageServers, spawned>>
    /\ UNCHANGED <<gates, gateStarts, installNeeded, rootFolderPath>>
    /\ UNCHANGED <<bufferVars, overlayVars, extensionVars>>

\* A failed spawn whose pair is recorded as active all the same.
lspInvokeRejectedTracked(i) ==
    /\ i \in 1..Len(lspCalls)
    /\ lspCalls[i].pc = "invoke"
    /\ LET call == lspCalls[i]
           pair == <<call.workspacePath, CallLanguage(call)>>
       IN  /\ spawned' = [spawned EXCEPT ![pair] = IF @ > 0 THEN @ - 1 ELSE 0]
           /\ lspSettled' = Rejected(call.op, "spawn error")
           /\ activeLanguageServers' =
                 TrackServer(activeLanguageServers, call.workspacePath, CallLanguage(call))
           /\ gateFailures' = RejectionReaches(gateFailures, call, "spawn error")
    /\ lspCalls' = RemoveAt(lspCalls, i)
    /\ UNCHANGED <<gates, gateStarts, installNeeded, rootFolderPath>>
    /\ UNCHANGED <<bufferVars, overlayVars, extensionVars>>

\* The host rejected the spawn of call i: the error is logged and thrown again.
lspInvokeRejected(i) ==
    /\ i \in 1..Len(lspCalls)
    /\ lspCalls[i].pc = "invoke"
    /\ LET call == lspCalls[i]
           pair == <<call.workspacePath, CallLanguage(call)>>
       IN  /\ spawned' = [spawned EXCEPT ![pair] = IF @ > 0 THEN @ - 1 ELSE 0]
           /\ lspSettled' = Rejected(call.op, "spawn error")
           /\ gateFailures' = RejectionReaches(gateFailures, call, "spawn error")
    /\ lspCalls' = RemoveAt(lspCalls, i)
    /\ UNCHANGED activeLanguageServers
    /\ UNCHANGED <<gates, gateStarts, installNeeded, rootFolderPath>>
    /\ UNCHANGED <<bufferVars, overlayVars, extensionVars>>

\* stop(workspacePath) up to `await invoke("lsp_stop")`.
stop(workspacePath) ==
    /\ Len(lspCalls) < MaxLspCalls
    /\ lspCalls' = Append(lspCalls,
                          [NewLspCall("stop", NoPath, workspacePath) EXCEPT !.pc = "stop"])
    /\ UNCHANGED <<activeLanguageServers, spawned, lspSettled>>
    /\ UNCHANGED <<bufferVars, overlayVars, gateVars, extensionVars>>

\* "Remove all language servers for this workspace"
WithoutWorkspace(active, workspacePath) ==
    {key \in active : ~StartsWith(key, workspacePath \o <<":">>)}

\* The host stopped the servers of the workspace of call i.
stopResolved(i) ==
    /\ i \in 1..Len(lspCalls)
    /\ lspCalls[i].pc = "stop"
    /\ activeLanguageServers' =
          WithoutWorkspace(activeLanguageServers, lspCalls[i].workspacePath)
    /\ spawned' = [pair \in SpawnPairs |->
                      IF pair[1] = lspCalls[i].workspacePath THEN 0 ELSE spawned[pair]]
    /\ lspSettled' = Resolved("stop", "undefined")
    /\ lspCalls' = RemoveAt(lspCalls, i)
    /\ UNCHANGED <<bufferVars, overlayVars, gateVars, extensionVars>>

\* The host call of stop failed: the error is logged and thrown again.
stopRejected(i) ==
    /\ i \in 1..Len(lspCalls)
    /\ lspCalls[i].pc = "stop"
    /\ lspSettled' = Rejected("stop", "stop error")
    /\ lspCalls' = RemoveAt(lspCalls, i)
    /\ UNCHANGED <<activeLanguageServers, spawned>>
    /\ UNCHANGED <<bufferVars, overlayVars, gateVars, extensionVars>>

\* stopForFile(filePath) up to `await invoke("lsp_stop_for_file")`.
stopForFile(filePath) ==
    /\ Len(lspCalls) < MaxLspCalls
    /\ lspCalls' = Append(lspCalls,
                          [NewLspCall("stopForFile", filePath, NoPath)
                              EXCEPT !.pc = "stopForFile"])
    /\ UNCHANGED <<activeLanguageServers, spawned, lspSettled>>
    /\ UNCHANGED <<bufferVars, overlayVars, gateVars, extensionVars>>

\* The import of lsp-client resolved for the stop that closeBufferForce began
\* for `path`: lspClient.stopForFile(closedBuffer.path) is called.
stopStartsLsp(path) ==
    /\ path \in stopStarts
    /\ Len(lspCalls) < MaxLspCalls
    /\ stopStarts' = stopStarts \ {path}
    /\ lspCalls' = Append(lspCalls,
                          [NewLspCall("stopForFile", path, NoPath)
                              EXCEPT !.pc = "stopForFile",
                                     !.caller = "closeBufferForce"])
    /\ UNCHANGED <<buffers, activeBufferId, maxOpenTabs, pendingClose,
                   closedBuffersHistory, now, reopening, reloading, reloadSettled,
                   sessionSave, savedSession>>
    /\ UNCHANGED <<activeLanguageServers, spawned, lspSettled>>
    /\ UNCHANGED <<overlayVars, gateVars, extensionVars>>

\* The import of lsp-client failed for that stop: the .catch logs the error and
\* stopForFile is not called.
stopImportRejected(path) ==
    /\ path \in stopStarts
    /\ stopStarts' = stopStarts \ {path}
    /\ UNCHANGED <<buffers, activeBufferId, maxOpenTabs, pendingClose,
                   closedBuffersHistory, now, reopening, reloading, reloadSettled,
                   sessionSave, savedSession>>
    /\ UNCHANGED <<overlayVars, outsideVars>>

\* invoke("lsp_stop_for_file") resolved for call i. What the host does with the
\* servers it runs is outside the sources at hand; its count of spawn requests
\* is left as it is.
stopForFileResolved(i) ==
    /\ i \in 1..Len(lspCalls)
    /\ lspCalls[i].pc = "stopForFile"
    /\ lspSettled' = Resolved("stopForFile", "undefined")
    /\ lspCalls' = RemoveAt(lspCalls, i)
    /\ UNCHANGED <<activeLanguageServers, spawned>>
    /\ UNCHANGED <<bufferVars, overlayVars, gateVars, extensionVars>>

\* invoke("lsp_stop_for_file") rejected for call i: the error is logged and
\* thrown again (the .catch of closeBufferForce logs it when it made the call).
stopForFileRejected(i) ==
    /\ i \in 1..Len(lspCalls)
    /\ lspCalls[i].pc = "stopForFile"
    /\ lspSettled' = Rejected("stopForFile", "stop error")
    /\ lspCalls' = RemoveAt(lspCalls, i)
    /\ UNCHANGED <<activeLanguageServers, spawned>>
    /\ UNCHANGED <<bufferVars, overlayVars, gateVars, extensionVars>>

\* What the host answers to lsp_get_completions and lsp_get_hover: a value, or
\* a failure with its error.
HostErrors == {"no active session", "timeout", "protocol error"}
NoCompletions == "[]"
CompletionLists == {NoCompletions, "[item]"}
HostCompletions ==
    [ok : {TRUE}, value : CompletionLists \cup {"null"}]
       \cup [ok : {FALSE}, value : HostErrors]
HostHovers ==
    [ok : {TRUE}, value : {"hover", "null"}] \cup [ok : {FALSE}, value : HostErrors]

\* A getCompletions that passes the failure of the host call on.
CompletionsRethrown(answer) ==
    IF answer.ok /\ answer.value \in CompletionLists
    THEN Resolved("getCompletions", answer.value)
    ELSE Rejected("getCompletions", answer.value)

\* getCompletions after its await: the completions, and [] when the host call
\* failed or reading completions.length threw.
CompletionsSettled(answer) ==
    IF answer.ok /\ answer.value \in CompletionLists
    THEN Resolved("getCompletions", answer.value)
    ELSE Resolved("getCompletions", NoCompletions)

\* getHover after its await: the hover, and null when the host call failed.
HoverSettled(answer) ==
    IF answer.ok THEN Resolved("getHover", answer.value)
    ELSE Resolved("getHover", "null")

\* getCompletions(filePath, line, character) up to its await.
getCompletions(filePath) ==
    /\ Len(lspCalls) < MaxLspCalls
    /\ lspCalls' = Append(lspCalls,
                          [NewLspCall("getCompletions", filePath, NoPath)
                              EXCEPT !.pc = "query"])
    /\ UNCHANGED <<activeLanguageServers, spawned, lspSettled>>
    /\ UNCHANGED <<bufferVars, overlayVars, gateVars, extensionVars>>

\* getHover(filePath, line, character) up to its await.
getHover(filePath) ==
    /\ Len(lspCalls) < MaxLspCalls
    /\ lspCalls' = Append(lspCalls,
                          [NewLspCall("getHover", filePath, NoPath) EXCEPT !.pc = "query"])
    /\ UNCHANGED <<activeLanguageServers, spawned, lspSettled>>
    /\ UNCHANGED <<bufferVars, overlayVars, gateVars, extensionVars>>

\* The host answered call i of getCompletions or getHover.
querySettled(i, answer) ==
    /\ i \in 1..Len(lspCalls)
    /\ lspCalls[i].pc = "query"
    /\ \/ /\ lspCalls[i].op = "getCompletions"
          /\ answer \in HostCompletions
          /\ lspSettled' = CompletionsSettled(answer)
       \/ /\ lspCalls[i].op = "getHover"
          /\ answer \in HostHovers
          /\ lspSettled' = HoverSettled(answer)
    /\ lspCalls' = RemoveAt(lspCalls, i)
    /\ UNCHANGED <<activeLanguageServers, spawned>>
    /\ UNCHANGED <<bufferVars, overlayVars, gateVars, extensionVars>>

\* ------------------------------------------------------------ specification
Init ==
    /\ buffers = << >>
    /\ activeBufferId = NullId
    /\ maxOpenTabs = MAX_OPEN_TABS
    /\ pendingClose = NoPending
    /\ closedBuffersHistory = << >>
    /\ now = 0
    /\ reopening = NoReopen
    /\ reloading = NoReload
    /\ reloadSettled = NoReloadSettled
    /\ sessionSave = NoSave
    /\ stopStarts = {}
    /\ savedSession = NoSession
    /\ gates = [path \in AllPaths |-> 0]
    /\ gateStarts = [path \in AllPaths |-> 0]
    /\ installNeeded = {}
    /\ rootFolderPath = NoPath
    /\ gateFailures = {}
    /\ availableExtensions = << >>
    /\ installedExtensions = {}
    /\ loadingInstalled = FALSE
    /\ hostInstalled = {}
    /\ extensionCalls = << >>
    /\ activeLanguageServers = {}
    /\ lspCalls = << >>
    /\ spawned = [pair \in SpawnPairs |-> 0]
    /\ lspSettled = NothingSettled
    /\ mounted = FALSE
    /\ textarea = NoTextarea
    /\ restoreTimers = << >>
    /\ cursorPosition = 0
    /\ positionCache = {}
    /\ tokenizeCalls = << >>

\* The ids of the buffers opened so far on the paths of `paths`, open or not.
IdsOf(paths) == {generateBufferId(p, t) : p \in paths, t \in 0..MaxClock}

\* The id sets handed to closeBuffersBatch: one or two ids.
BatchInputs(ids) == {b \in SUBSET ids : Cardinality(b) \in {1, 2}}

\* An environment E gives the arguments the callers use: paths, ids, contents,
\* flags, diffs, tokens and maxTabs.
OpenOps(E) ==
    \E path \in E.paths, content \in E.contents, flags \in E.flags :
        openBuffer(path, path, content, flags,
                   IF flags.isDiff THEN "diff1" ELSE NoDiff)

ActivateOps(E) ==
    \/ \E id \in E.ids : setActiveBuffer(id)
    \/ \E id \in E.ids : handleTabClick(id)
    \/ switchToNextBuffer
    \/ switchToPreviousBuffer

PinOps(E) == \E id \in E.ids : handleTabPin(id)

ReorderOps ==
    \E i \in 0..(Len(buffers) - 1), j \in 0..(Len(buffers) - 1) : reorderBuffers(i, j)

LimitOps(E) == \E max \in E.maxTabs : setMaxOpenTabs(max)

ForceCloseOps(E) == \E id \in E.ids : closeBufferForce(id)

BatchCloseOps(E) == \E ids \in BatchInputs(E.ids) : closeBuffersBatch(ids)

\* Closes that a dirty buffer blocks, and their confirmation.
GatedCloseOps(E) ==
    \/ \E id \in E.ids : closeBuffer(id)
    \/ \E id \in E.ids : handleTabClose(id)
    \/ \E id \in E.ids : handleCloseOtherTabs(id)
    \/ handleCloseAllTabs
    \/ \E id \in E.ids : handleCloseTabsToRight(id)
    \/ setPendingClose(NoPending)
    \/ confirmCloseWithoutSaving
    \/ cancelPendingClose

DirtyOps(E) == \E id \in E.ids, isDirty \in BOOLEAN : markBufferDirty(id, isDirty)

ContentOps(E) ==
    \E id \in E.ids, content \in E.contents, markDirty \in BOOLEAN,
       diffData \in E.diffs :
        updateBufferContent(id, content, markDirty, diffData)

TokenOps(E) == \E id \in E.ids, tokens \in E.tokens : updateBufferTokens(id, tokens)

ReloadOps(E) ==
    \/ \E id \in E.ids : reloadBufferFromDisk(id)
    \/ \E content \in E.contents : reloadResolved(content)
    \/ reloadRejected

ReopenOps(E) ==
    \/ reopenClosedTab
    \/ \E content \in E.contents : reopenResolved(content)
    \/ reopenRejected

OverlayOps(E) ==
    \/ mountEditorOverlay
    \/ \E newContent \in E.contents, selectionStart \in E.offsets :
          handleInput(newContent, selectionStart)
    \/ restoreCursorTimeout

SelectionOps(E) ==
    \/ \E tabSize \in E.tabSizes : handleKeyDown(tabSize)
    \/ \E selectionStart, selectionEnd \in E.offsets :
          handleCursorChange(selectionStart, selectionEnd)

GateOps(E) == \E path \in E.paths : extensionGate(path) \/ gateStartsLsp(path)

RootOps(E) == \E root \in E.roots : setRootFolder(root)

GateFailureOps(E) ==
    \/ \E path \in E.paths : gateImportRejected(path)
    \/ \E path \in E.paths, module \in GateModules : gateStartImportRejected(path, module)
    \/ \E i \in 1..MaxLspCalls : lspImportRejected(i)

SessionOps == sessionSaveCallback

ExtensionOps(E) ==
    \/ loadAvailableExtensions
    \/ loadInstalledExtensions
    \/ \E installed \in E.installs : loadInstalledResolved(installed)
    \/ loadInstalledRejected

\* Loading the lists of the extension store, the host answering with what it
\* has installed.
ExtensionLoadOps ==
    \/ loadAvailableExtensions
    \/ loadInstalledExtensions
    \/ loadInstalledResolved(hostInstalled)
    \/ loadInstalledRejected

InstallOnlyOps(E) ==
    \/ \E extensionId \in E.extensionIds : installExtension(extensionId)
    \/ \E i \in 1..MaxExtensionCalls :
          extensionInvokeResolved(i) \/ extensionInvokeRejected(i)
    \/ \E i \in 1..MaxExtensionCalls, ok \in BOOLEAN : extensionReloaded(i, ok)

InstallOps ==
    \/ \E extensionId \in ExtensionIds : installExtension(extensionId)
    \/ \E extensionId \in ExtensionIds : uninstallExtension(extensionId)
    \/ \E i \in 1..MaxExtensionCalls :
          extensionInvokeResolved(i) \/ extensionInvokeRejected(i)
    \/ \E i \in 1..MaxExtensionCalls, ok \in BOOLEAN : extensionReloaded(i, ok)

LspStartOps(E) ==
    \/ \E workspacePath \in E.workspaces, filePath \in E.files \cup {NoPath} :
          start(workspacePath, filePath)
    \/ \E workspacePath \in E.workspaces, filePath \in E.files :
          startForFile(filePath, workspacePath)

LspHostOps ==
    \E i \in 1..MaxLspCalls :
       lspImported(i) \/ lspInvokeResolved(i) \/ lspInvokeRejected(i)

LspStopOps(E) ==
    \/ \E workspacePath \in E.workspaces : stop(workspacePath)
    \/ \E i \in 1..MaxLspCalls : stopResolved(i) \/ stopRejected(i)

LspFileStopOps(E) == \E filePath \in E.files : stopForFile(filePath)

LspFileStopHostOps ==
    \E i \in 1..MaxLspCalls : stopForFileResolved(i) \/ stopForFileRejected(i)

CloseStopOps(E) == \E path \in E.paths : stopStartsLsp(path) \/ stopImportRejected(path)

LspQueryOps(E) ==
    \/ \E filePath \in E.files : getCompletions(filePath) \/ getHover(filePath)
    \/ \E i \in 1..MaxLspCalls, answer \in HostCompletions \cup HostHovers :
          querySettled(i, answer)

\* Three real files, two of which have the same sanitized path.
EnvTabs ==
    [paths |-> Paths, ids |-> IdsOf(Paths), contents |-> {"x"}, flags |-> {FileFlags},
     diffs |-> {NoDiff}, tokens |-> {<< >>}, maxTabs |-> 0..MaxTabsArg]

\* Two real files with the same sanitized path.
EnvPair ==
    [EnvTabs EXCEPT !.paths = {PathAB1, PathAB2}, !.ids = IdsOf({PathAB1, PathAB2})]

\* The same two paths, opened as real files or as virtual buffers.
EnvPairVirtual ==
    [EnvPair EXCEPT !.flags = {FileFlags, [FileFlags EXCEPT !.isVirtual = TRUE]}]

\* Buffers of every kind with two contents, diff payloads and tokens.
EnvContent ==
    [EnvPair EXCEPT !.contents = Contents,
                    !.flags = {FileFlags, [FileFlags EXCEPT !.isVirtual = TRUE],
                               [FileFlags EXCEPT !.isDiff = TRUE]},
                    !.diffs = {NoDiff} \cup DiffPayloads,
                    !.tokens = TokenSeqs]

\* One path, opened as a real file or as a virtual buffer, with two contents.
EnvReload ==
    [EnvPair EXCEPT !.paths = {PathC}, !.ids = IdsOf({PathC}),
                    !.contents = Contents,
                    !.flags = {FileFlags, [FileFlags EXCEPT !.isVirtual = TRUE]}]

\* Two paths, opened at one clock value as real files or as virtual buffers,
\* with or without a folder open.
EnvSession ==
    [EnvPair EXCEPT !.ids = {generateBufferId(p, 0) : p \in {PathAB1, PathAB2}},
                    !.flags = {FileFlags, [FileFlags EXCEPT !.isVirtual = TRUE]}]
        @@ [roots |-> {NoPath, WorkspaceW}]

\* A TypeScript file and a file no extension knows, with or without a folder
\* open and with a limit of no tab at all or of two.
EnvGate ==
    [EnvTabs EXCEPT !.paths = {PathTs, PathC}, !.ids = IdsOf({PathTs, PathC}),
                    !.flags = {FileFlags, [FileFlags EXCEPT !.isVirtual = TRUE]},
                    !.maxTabs = {0, MAX_OPEN_TABS}]
        @@ [roots |-> {NoPath, WorkspaceW}, installs |-> {{}, {ManifestTypeScript.id}}]

\* A TypeScript file opened as a real file at one clock value, its extension
\* installed once the store has loaded, with no folder open.
EnvGateLsp ==
    [EnvTabs EXCEPT !.paths = {PathTs}, !.ids = {generateBufferId(PathTs, 0)},
                    !.maxTabs = {MAX_OPEN_TABS}]
        @@ [installs |-> {{ManifestTypeScript.id}}]

\* Two TypeScript files and a JavaScript file in one workspace.
EnvLsp == [workspaces |-> {WorkspaceW}, files |-> SourcePaths]

\* One TypeScript file in the workspaces "w" and "w:x".
EnvLspStop == [workspaces |-> {WorkspaceW, WorkspaceWX}, files |-> {PathTs}]

\* One TypeScript file in one workspace.
EnvLspQuery == [workspaces |-> {WorkspaceW}, files |-> {PathTs}]

\* Opening, activating, pinning, reordering and batch-closing tabs under a
\* changing limit.
Next ==
    \/ Tick
    \/ OpenOps(EnvTabs)
    \/ ActivateOps(EnvTabs)
    \/ PinOps(EnvTabs)
    \/ ReorderOps
    \/ LimitOps(EnvTabs)
    \/ BatchCloseOps(EnvTabs)

Spec == Init /\ [][Next]_vars

\* Reopening closed tabs.
NextReopen ==
    \/ Tick
    \/ OpenOps(EnvPairVirtual)
    \/ PinOps(EnvPairVirtual)
    \/ ForceCloseOps(EnvPairVirtual)
    \/ ReopenOps(EnvPairVirtual)

SpecReopen == Init /\ [][NextReopen]_vars

\* Closing dirty buffers: pending closes, confirmed or cancelled.
NextClose ==
    \/ Tick
    \/ OpenOps(EnvPair)
    \/ PinOps(EnvPair)
    \/ DirtyOps(EnvPair)
    \/ GatedCloseOps(EnvPair)

SpecClose == Init /\ [][NextClose]_vars

\* Editing the content and the tokens of buffers.
NextContent ==
    \/ Tick
    \/ OpenOps(EnvContent)
    \/ ContentOps(EnvContent)
    \/ TokenOps(EnvContent)
    \/ DirtyOps(EnvContent)

SpecContent == Init /\ [][NextContent]_vars

\* Reloading buffers from disk while they are edited and closed.
NextReload ==
    \/ Tick
    \/ OpenOps(EnvReload)
    \/ ContentOps(EnvReload)
    \/ DirtyOps(EnvReload)
    \/ ForceCloseOps(EnvReload)
    \/ ReloadOps(EnvReload)

SpecReload == Init /\ [][NextReload]_vars

\* Saving the session after opening, closing, pinning and activating tabs while
\* folders are opened and closed.
NextSession ==
    \/ OpenOps(EnvSession)
    \/ ActivateOps(EnvSession)
    \/ PinOps(EnvSession)
    \/ ForceCloseOps(EnvSession)
    \/ RootOps(EnvSession)
    \/ SessionOps

SpecSession == Init /\ [][NextSession]_vars

\* Opening files, the extension check of each and the LSP start it leads to,
\* while the extension store loads.
NextGate ==
    \/ OpenOps(EnvGate)
    \/ LimitOps(EnvGate)
    \/ GateOps(EnvGate)
    \/ RootOps(EnvGate)
    \/ ExtensionOps(EnvGate)

SpecGate == Init /\ [][NextGate]_vars

\* The LSP start that openBuffer begins, up to its success or failure.
NextGateLsp ==
    \/ OpenOps(EnvGateLsp)
    \/ ForceCloseOps(EnvGateLsp)
    \/ GateOps(EnvGateLsp)
    \/ GateFailureOps(EnvGateLsp)
    \/ ExtensionOps(EnvGateLsp)
    \/ LspHostOps

SpecGateLsp == Init /\ [][NextGateLsp]_vars

\* The editor overlay over two files, some of them opened empty, the caret at
\* the start of the text after every input.
EnvOverlay ==
    [EnvPair EXCEPT !.paths = {PathAB1, PathC},
                    !.ids = {generateBufferId(p, 0) : p \in {PathAB1, PathC}},
                    !.contents = {"", "y"},
                    !.flags = {FileFlags}]
        @@ [offsets |-> {0}]

\* The editor overlay over one file and the user typing, pressing Tab and
\* selecting in its textarea, while the file is reloaded from disk or another
\* caller writes its content.
EnvInput ==
    [EnvPair EXCEPT !.paths = {PathC},
                    !.ids = {generateBufferId(PathC, 0)},
                    !.contents = {"", "y"},
                    !.flags = {FileFlags}]
        @@ [offsets |-> 0..1, tabSizes |-> {1}]

NextInput ==
    \/ OpenOps(EnvInput)
    \/ ActivateOps(EnvInput)
    \/ ContentOps(EnvInput)
    \/ ReloadOps(EnvInput)
    \/ OverlayOps(EnvInput)
    \/ SelectionOps(EnvInput)

SpecInput == Init /\ [][NextInput]_vars

NextOverlay ==
    \/ OpenOps(EnvOverlay)
    \/ ActivateOps(EnvOverlay)
    \/ ContentOps(EnvOverlay)
    \/ ForceCloseOps(EnvOverlay)
    \/ OverlayOps(EnvOverlay)

SpecOverlay == Init /\ [][NextOverlay]_vars

\* Three real files opened at one clock value and closed one by one, in
\* batches and by the limit of unpinned tabs, with the LSP stops that follow.
EnvCloseStop ==
    [EnvTabs EXCEPT !.paths = {PathAB1, PathC, PathTs},
                    !.ids = {generateBufferId(p, 0) : p \in {PathAB1, PathC, PathTs}}]

NextCloseStop ==
    \/ OpenOps(EnvCloseStop)
    \/ ForceCloseOps(EnvCloseStop)
    \/ BatchCloseOps(EnvCloseStop)
    \/ CloseStopOps(EnvCloseStop)
    \/ LspFileStopHostOps

SpecCloseStop == Init /\ [][NextCloseStop]_vars

\* A TypeScript file opened while the extension store loads its lists and the
\* TypeScript extension is installed.
EnvInstallGate ==
    [EnvTabs EXCEPT !.paths = {PathTs}, !.ids = {generateBufferId(PathTs, 0)},
                    !.maxTabs = {MAX_OPEN_TABS}]
        @@ [extensionIds |-> {ManifestTypeScript.id}]

NextInstallGate ==
    \/ OpenOps(EnvInstallGate)
    \/ GateOps(EnvInstallGate)
    \/ ExtensionLoadOps
    \/ InstallOnlyOps(EnvInstallGate)
    \/ LspHostOps

SpecInstallGate == Init /\ [][NextInstallGate]_vars

\* Installing and uninstalling extensions while the store loads its lists.
NextExtensions ==
    \/ ExtensionLoadOps
    \/ InstallOps

SpecExtensions == Init /\ [][NextExtensions]_vars

\* Starting and stopping language servers.
NextLsp ==
    \/ LspStartOps(EnvLsp)
    \/ LspHostOps
    \/ LspStopOps(EnvLsp)

SpecLsp == Init /\ [][NextLsp]_vars

\* Starting and stopping the servers of two workspaces.
NextLspStop ==
    \/ LspStartOps(EnvLspStop)
    \/ LspHostOps
    \/ LspStopOps(EnvLspStop)

SpecLspStop == Init /\ [][NextLspStop]_vars

\* Starting servers for a TypeScript and a JavaScript file of one workspace
\* and stopping them file by file.
EnvLspFileStop == [workspaces |-> {WorkspaceW}, files |-> {PathTs, PathJs}]

NextLspFileStop ==
    \/ LspStartOps(EnvLspFileStop)
    \/ LspHostOps
    \/ LspFileStopOps(EnvLspFileStop)
    \/ LspFileStopHostOps

SpecLspFileStop == Init /\ [][NextLspFileStop]_vars

\* Completion and hover requests while servers start.
NextLspQuery ==
    \/ LspStartOps(EnvLspQuery)
    \/ LspHostOps
    \/ LspQueryOps(EnvLspQuery)

SpecLspQuery == Init /\ [][NextLspQuery]_vars

\* ================================================================ properties
\* The arguments the properties quantify over.
OpenArgs == Contents \X OpenFlags

\* The open buffers of bufs that are active, as indexes.
ActiveIndexes(bufs) == {i \in 1..Len(bufs) : bufs[i].isActive}

\* bufs without its isActive flags.
WithoutActive(bufs) == [i \in 1..Len(bufs) |-> [bufs[i] EXCEPT !.isActive = FALSE]]

\* C1: with at least one buffer open, exactly one open buffer has isActive = true
\* and it is the buffer whose id is activeBufferId; with no buffer open,
\* activeBufferId is null.
C1_ActiveExclusive ==
    IF Len(buffers) >= 1
    THEN /\ Cardinality(ActiveIndexes(buffers)) = 1
         /\ \A i \in ActiveIndexes(buffers) : buffers[i].id = activeBufferId
    ELSE activeBufferId = NullId

\* C2: no two open buffers have the same path; openBuffer of a path that is not
\* open returns the id of the buffer it creates for the path, and openBuffer of
\* a path that is open returns the id of the buffer open on that path and
\* leaves the number of open buffers unchanged.
C2_OnePerPath ==
    /\ \A i, j \in 1..Len(buffers) : buffers[i].path = buffers[j].path => i = j
    /\ \A path \in Paths, a \in OpenArgs :
          LET r == OpenBufferFn(Store, now, path, path, a[1], a[2], NoDiff)
              e == FindIndexByPath(buffers, path)
          IN  IF e # 0
              THEN /\ r.ret = buffers[e].id
                   /\ Len(r.store.buffers) = Len(buffers)
              ELSE r.outcome = "created" =>
                      r.ret = r.store.buffers[FindIndexByPath(r.store.buffers, path)].id

\* Two buffers are open, one of them virtual, and openBuffer of the path of the
\* one that is not active returns its id and activates it.
C2_Witness ==
    /\ Len(buffers) = 2
    /\ \E i \in 1..2 : buffers[i].isVirtual
    /\ \E i \in 1..2 :
          LET r == OpenBufferFn(Store, now, buffers[i].path, buffers[i].path,
                                "x", FileFlags, NoDiff)
          IN  /\ ~buffers[i].isActive
              /\ r.outcome = "existing"
              /\ r.store.activeBufferId # activeBufferId

\* The ids the close properties quantify over.
CloseIds == IdsOf({PathAB1, PathAB2})

\* Whether closeBuffer(id) finds a dirty buffer in s.
SingleBlocked(s, id) ==
    FindIndex(s.buffers, id) # 0 /\ s.buffers[FindIndex(s.buffers, id)].isDirty

\* Whether handleCloseOtherTabs(keep), handleCloseAllTabs and
\* handleCloseTabsToRight(anchor) find a dirty buffer among their targets in s.
OthersBlocked(s, keep) == FirstDirty(OthersToClose(s.buffers, keep)) # 0
AllBlocked(s) == FirstDirty(AllToClose(s.buffers)) # 0
ToRightBlocked(s, anchor) ==
    FindIndex(s.buffers, anchor) # 0 /\ FirstDirty(ToRightToClose(s.buffers, anchor)) # 0

\* C3: for each pendingClose type, a blocked close followed at once by
\* confirmCloseWithoutSaving leaves the buffers that force-closing the blocked
\* operation's targets (its target set minus pinned buffers) leaves; after a
\* confirmed handleCloseTabsToRight(anchor) no unpinned buffer is to the right
\* of the anchor.
C3_ConfirmClosesOriginalTargets ==
    \A id \in CloseIds :
       /\ SingleBlocked(Store, id) =>
             ConfirmCloseFn(CloseBufferFn(Store, id)).buffers
                = CloseForceFn(Store, id).buffers
       /\ OthersBlocked(Store, id) =>
             ConfirmCloseFn(CloseOthersFn(Store, id)).buffers
                = ForceCloseEach(Store, OthersToClose(buffers, id)).buffers
       /\ AllBlocked(Store) =>
             ConfirmCloseFn(CloseAllFn(Store)).buffers
                = ForceCloseEach(Store, AllToClose(buffers)).buffers
       /\ ToRightBlocked(Store, id) =>
             LET after == ConfirmCloseFn(CloseToRightFn(Store, id)).buffers IN
             /\ after = ForceCloseEach(Store, ToRightToClose(buffers, id)).buffers
             /\ \A i \in 1..Len(after) :
                   i > FindIndex(after, id) => after[i].isPinned

\* C4: closeBuffer(id), for the open buffer the store finds for id: when it is
\* dirty, pendingClose becomes {bufferId: id, type: single} and nothing else
\* changes; when it is clean, the store becomes what closeBufferForce(id)
\* leaves, no buffer with that id stays open and pendingClose is not written.
C4_CloseBufferGated ==
    \A id \in CloseIds :
       LET i == FindIndex(buffers, id)
           after == CloseBufferFn(Store, id)
       IN  i # 0 =>
             IF buffers[i].isDirty
             THEN after = [Store EXCEPT !.pendingClose =
                              [bufferId |-> id, type |-> "single",
                               keepBufferId |-> NullId]]
             ELSE /\ after = CloseForceFn(Store, id)
                  /\ FindIndex(after.buffers, id) = 0
                  /\ Len(after.buffers) < Len(buffers)
                  /\ after.pendingClose = pendingClose

\* A dirty buffer and a clean buffer are open, and a blocked closeBuffer has
\* recorded its pendingClose for the dirty one.
C4_Witness ==
    /\ \E i \in 1..Len(buffers) :
          /\ buffers[i].isDirty
          /\ FindIndex(buffers, buffers[i].id) = i
          /\ pendingClose = [bufferId |-> buffers[i].id, type |-> "single",
                             keepBufferId |-> NullId]
    /\ \E i \in 1..Len(buffers) :
          ~buffers[i].isDirty /\ FindIndex(buffers, buffers[i].id) = i

\* C5 as stated: a blocked close followed by cancelPendingClose leaves the
\* whole store, pendingClose included, as it was before the close.
C5_CancelRestoresStore ==
    \A id \in CloseIds :
       /\ SingleBlocked(Store, id) =>
             CancelPendingFn(CloseBufferFn(Store, id)) = Store
       /\ OthersBlocked(Store, id) =>
             CancelPendingFn(CloseOthersFn(Store, id)) = Store
       /\ AllBlocked(Store) => CancelPendingFn(CloseAllFn(Store)) = Store
       /\ ToRightBlocked(Store, id) =>
             CancelPendingFn(CloseToRightFn(Store, id)) = Store

\* The store with pendingClose = null.
PendingCleared(s) == [s EXCEPT !.pendingClose = NoPending]

\* C5, amended: a blocked close records a pendingClose and changes nothing
\* else, and cancelPendingClose after it leaves buffers, their order and flags,
\* activeBufferId, maxOpenTabs and closedBuffersHistory as they were before the
\* close and pendingClose null: the whole store is as before exactly when no
\* pendingClose was recorded before the close.
C5_CancelRestoresAllButPending ==
    \A id \in CloseIds :
       /\ SingleBlocked(Store, id) =>
             /\ CloseBufferFn(Store, id).pendingClose # NoPending
             /\ CancelPendingFn(CloseBufferFn(Store, id)) = PendingCleared(Store)
       /\ OthersBlocked(Store, id) =>
             /\ CloseOthersFn(Store, id).pendingClose # NoPending
             /\ CancelPendingFn(CloseOthersFn(Store, id)) = PendingCleared(Store)
       /\ AllBlocked(Store) =>
             /\ CloseAllFn(Store).pendingClose # NoPending
             /\ CancelPendingFn(CloseAllFn(Store)) = PendingCleared(Store)
       /\ ToRightBlocked(Store, id) =>
             /\ CloseToRightFn(Store, id).pendingClose # NoPending
             /\ CancelPendingFn(CloseToRightFn(Store, id)) = PendingCleared(Store)

\* A close is pending for an open dirty buffer while a bulk close to the right
\* of an open anchor would be blocked too, with closed tabs in the history.
C5_Witness ==
    /\ pendingClose # NoPending
    /\ SingleBlocked(Store, pendingClose.bufferId)
    /\ AllBlocked(Store)
    /\ \E id \in CloseIds : ToRightBlocked(Store, id)
    /\ Len(closedBuffersHistory) > 0

\* C6: in every reachable state the number of open buffers with
\* isPinned = false is at most maxOpenTabs.
C6_UnpinnedWithinLimit == Len(Unpinned(buffers)) <= maxOpenTabs

\* Whether every buffer pinned in `before` is still in `after`.
PinnedKept(before, after) ==
    \A i \in 1..Len(before) :
       before[i].isPinned =>
          \E j \in 1..Len(after) :
             /\ after[j].path = before[i].path
             /\ after[j].id = before[i].id
             /\ after[j].isPinned

\* C7: in every state with unpinned count <= maxOpenTabs, openBuffer of a path
\* that is not open returns a buffer id, leaves the unpinned count <=
\* maxOpenTabs and keeps every pinned buffer open.
C7_OpenKeepsLimitAndPinned ==
    \A path \in Paths :
       (Len(Unpinned(buffers)) <= maxOpenTabs /\ ExistingFor(buffers, path) = 0) =>
          LET r == OpenBufferFn(Store, now, path, path, "x", FileFlags, NoDiff) IN
          /\ r.outcome = "created"
          /\ r.ret # NullId
          /\ Len(Unpinned(r.store.buffers)) <= maxOpenTabs
          /\ PinnedKept(buffers, r.store.buffers)

\* The index of the first unpinned buffer in tab order (0 when there is none).
FirstUnpinned(bufs) ==
    IF \E i \in 1..Len(bufs) : ~bufs[i].isPinned
    THEN CHOOSE i \in 1..Len(bufs) :
            ~bufs[i].isPinned /\ \A j \in 1..(i - 1) : bufs[j].isPinned
    ELSE 0

\* C8: when openBuffer of a path that is not open finds the unpinned count at
\* the limit and an unpinned buffer open, the buffers it keeps are the previous
\* ones without the first unpinned buffer in tab order, in the same order, and
\* the new buffer follows them.
C8_EvictsFirstUnpinnedOnly ==
    \A path \in Paths :
       ( /\ ExistingFor(buffers, path) = 0
         /\ AtTabLimit(buffers, maxOpenTabs)
         /\ FirstUnpinned(buffers) # 0 ) =>
          LET r == OpenBufferFn(Store, now, path, path, "x", FileFlags, NoDiff)
              kept == SubSeq(r.store.buffers, 1, Len(r.store.buffers) - 1)
          IN  /\ r.outcome = "created"
              /\ Len(r.store.buffers) = Len(buffers)
              /\ WithoutActive(kept)
                    = WithoutActive(RemoveAt(buffers, FirstUnpinned(buffers)))
              /\ r.store.buffers[Len(r.store.buffers)].path = path

\* C9: updateBufferContent(id, c, markDirty) with c the current content of the
\* buffer found for id and no diff payload leaves the whole store as it was,
\* for both values of markDirty.
C9_SameContentIsNoOp ==
    \A id \in IdsOf({PathAB1, PathAB2}), markDirty \in BOOLEAN :
       LET i == FindIndex(buffers, id) IN
       i # 0 =>
          UpdateContentFn(Store, id, buffers[i].content, markDirty, NoDiff) = Store

\* Two buffers are open, one of them a real file that is dirty and has tokens
\* and whose content differs from the other's, the other one clean.
C9_Witness ==
    /\ Len(buffers) = 2
    /\ \E i, j \in 1..2 :
          /\ FindIndex(buffers, buffers[i].id) = i
          /\ FindIndex(buffers, buffers[j].id) = j
          /\ ~buffers[i].isVirtual /\ buffers[i].isDirty
          /\ buffers[i].tokens # << >>
          /\ ~buffers[j].isVirtual /\ ~buffers[j].isDirty
          /\ buffers[i].content # buffers[j].content

\* Whether s has an open, active buffer with path `path` and isPinned = k.
OpenActiveWithPin(s, path, k) ==
    \E i \in 1..Len(s.buffers) :
       /\ s.buffers[i].path = path
       /\ s.buffers[i].isActive
       /\ s.buffers[i].id = s.activeBufferId
       /\ s.buffers[i].isPinned = k

\* Whether the open buffers have distinct ids, none of them the id a buffer
\* created now for `path` gets unless it is the buffer of that path.
IdsStayDistinct(s, path) ==
    /\ \A i, j \in 1..Len(s.buffers) : s.buffers[i].id = s.buffers[j].id => i = j
    /\ \A i \in 1..Len(s.buffers) :
          s.buffers[i].id = generateBufferId(path, now) => s.buffers[i].path = path

\* C10: with a non-empty history whose head is {path p, isPinned k},
\* reopenClosedTab removes the head from the history, and once the read has
\* succeeded an open, active buffer with path p and isPinned = k exists, whether
\* or not p is open already; the same holds when the read of a reopen in flight
\* succeeds in a later state. Stated for stores whose buffer ids stay distinct.
C10_ReopenRestoresPathAndPin ==
    /\ Len(closedBuffersHistory) > 0 =>
          LET closedBuffer == Head(closedBuffersHistory)
              begun == ReopenBeginFn(Store)
          IN  /\ begun.closedBuffersHistory = Tail(closedBuffersHistory)
              /\ IdsStayDistinct(Store, closedBuffer.path) =>
                    OpenActiveWithPin(ReopenResolvedFn(begun, now, closedBuffer, "x"),
                                      closedBuffer.path, closedBuffer.isPinned)
    /\ (reopening # NoReopen /\ IdsStayDistinct(Store, reopening.path)) =>
          OpenActiveWithPin(ReopenResolvedFn(Store, now, reopening, "x"),
                            reopening.path, reopening.isPinned)

\* C11: closeBufferForce(id) of the open buffer at index i leaves the other
\* buffers in their order and removes only that one; when it was the active
\* buffer the new active buffer is the one at the clamped index of the
\* remaining list, or activeBufferId is null when none remains; when it was not
\* the active buffer, the active buffer is unchanged.
C11_ForceCloseRemovesOne ==
    \A id \in CloseIds :
       LET i == FindIndex(buffers, id)
           after == CloseForceFn(Store, id)
           rest == RemoveAt(buffers, i)
       IN  i # 0 =>
             /\ WithoutActive(after.buffers) = WithoutActive(rest)
             /\ IF activeBufferId = id
                THEN IF Len(rest) = 0
                     THEN after.activeBufferId = NullId
                     ELSE /\ after.activeBufferId = rest[Min(i, Len(rest))].id
                          /\ after.buffers[Min(i, Len(rest))].isActive
                ELSE /\ after.activeBufferId = activeBufferId
                     /\ after.buffers = rest

\* C12: for every workspace and language, the process host has at most one
\* spawn request for the pair that it neither rejected nor stopped, whatever
\* the interleaving of the start and startForFile calls.
C12_OneSpawnPerPair ==
    \A workspacePath \in Workspaces, languageId \in Languages :
       spawned[<<workspacePath, languageId>>] <= 1

\* Whether a start or startForFile call for the pair is in flight.
StartInFlight(workspacePath, languageId) ==
    \E i \in 1..Len(lspCalls) :
       /\ lspCalls[i].op \in {"start", "startForFile"}
       /\ lspCalls[i].workspacePath = workspacePath
       /\ CallLanguage(lspCalls[i]) = languageId

\* C13: when two starts for the same workspace and language were issued
\* before the first resolved, the host accepted both spawns and both calls have
\* settled, the active-session set holds exactly one entry for the pair.
C13_TwoStartsOneSession ==
    \A workspacePath \in Workspaces, languageId \in Languages :
       ( /\ spawned[<<workspacePath, languageId>>] = 2
         /\ ~StartInFlight(workspacePath, languageId) ) =>
          Cardinality({key \in activeLanguageServers :
                          key = ServerKey(workspacePath, languageId)}) = 1

\* Two startForFile calls for "m.ts" in workspace w both asked the host, the
\* host accepted both and the second has just resolved.
C13_Witness ==
    /\ spawned[<<WorkspaceW, LanguageTs>>] = 2
    /\ lspCalls = << >>
    /\ lspSettled = Resolved("startForFile", "undefined")
    /\ ServerKey(WorkspaceW, LanguageTs) \in activeLanguageServers

\* C14: a start or startForFile call whose file resolves to a language whose
\* key workspace:language is in the active-session set returns after the
\* import without a spawn request, whether or not a server path resolves.
C14_ActivePairIsNoOp ==
    \A i \in 1..Len(lspCalls) :
       LET call == lspCalls[i]
           languageId == getLanguageId(call.filePath)
       IN  ( /\ call.pc = "import"
             /\ languageId # NoLanguage
             /\ ServerKey(call.workspacePath, languageId) \in activeLanguageServers ) =>
              AlreadyRunning(activeLanguageServers, call.workspacePath, call.filePath)

\* The paths and flags the extension-check property quantifies over.
GatePaths == {PathTs, PathC}
RealFlags(flags) ==
    ~flags.isVirtual /\ ~flags.isDiff /\ ~flags.isImage /\ ~flags.isSQLite

\* C15: openBuffer of a path that is not open starts one extension check when
\* the buffer is a real file and none when it is virtual, diff, image or sqlite;
\* and the check takes exactly one of three outcomes: nothing when no extension
\* resolves for the path, an LSP start for the path when one resolves and is
\* installed, one install-needed event with the extension's id and name and the
\* path when one resolves and is not installed.
C15_GateTakesOneOutcome ==
    \A path \in GatePaths :
       /\ \A flags \in OpenFlags :
             ExistingFor(buffers, path) = 0 =>
                LET r == OpenBufferFn(Store, now, path, path, "x", flags, NoDiff)
                    after == GatesAfterOpen(gates, r, path, flags)
                IN  IF RealFlags(flags)
                    THEN gates[path] < MaxPendingGates => after[path] = gates[path] + 1
                    ELSE after = gates
       /\ LET e == getExtensionForFile(availableExtensions, path)
              o == GateOutcome(availableExtensions, installedExtensions, path)
          IN  IF e = 0 THEN o.kind = "none"
              ELSE IF availableExtensions[e].manifest.id \in installedExtensions
              THEN o = [kind |-> "start", filePath |-> path]
              ELSE o = [kind |-> "install-needed",
                        detail |-> [extensionId |-> availableExtensions[e].manifest.id,
                                    extensionName |->
                                        availableExtensions[e].manifest.displayName,
                                    filePath |-> path]]

\* A step in which a getCompletions or getHover call is made or settles.
QueryStep ==
    \/ \E i \in 1..Len(lspCalls) :
          lspCalls[i].pc = "query" /\ lspCalls' = RemoveAt(lspCalls, i)
    \/ /\ Len(lspCalls') = Len(lspCalls) + 1
       /\ lspCalls'[Len(lspCalls')].pc = "query"

\* C16: getCompletions resolves for every answer of the host, with an empty
\* sequence when the host call failed; getHover resolves for every answer, with
\* null when the host call failed; no getCompletions or getHover call that
\* settled was rejected, and no step of either changes the active-session set.
C16_QueriesNeverReject ==
    /\ [](/\ \A answer \in HostCompletions :
                /\ CompletionsSettled(answer).kind = "resolved"
                /\ ~answer.ok => CompletionsSettled(answer).value = NoCompletions
          /\ \A answer \in HostHovers :
                /\ HoverSettled(answer).kind = "resolved"
                /\ ~answer.ok => HoverSettled(answer).value = "null"
          /\ lspSettled.op \in {"getCompletions", "getHover"} =>
                lspSettled.kind = "resolved")
    /\ [][QueryStep => activeLanguageServers' = activeLanguageServers]_vars

\* A getCompletions call has resolved with the empty sequence while a server
\* is active and a getHover call is awaiting the host.
C16_Witness ==
    /\ lspSettled = Resolved("getCompletions", NoCompletions)
    /\ activeLanguageServers # {}
    /\ \E i \in 1..Len(lspCalls) : lspCalls[i].op = "getHover"

\* C17: in every reachable state no virtual buffer is dirty.
C17_VirtualNeverDirty ==
    \A i \in 1..Len(buffers) : buffers[i].isVirtual => ~buffers[i].isDirty

\* Whether two states of the store have the same buffers, active buffer id and
\* pending close.
SameTabs(s, t) ==
    /\ t.buffers = s.buffers
    /\ t.activeBufferId = s.activeBufferId
    /\ t.pendingClose = s.pendingClose

\* The ids that no open buffer has.
IdsNotOpen == {id \in IdsOf(Paths) : FindIndex(buffers, id) = 0}

\* The operations of C18 that return or skip their update when no buffer has
\* the id leave buffers, activeBufferId and pendingClose unchanged.
GuardedOpsIgnoreUnknownId ==
    \A id \in IdsNotOpen :
       /\ SameTabs(Store, CloseBufferFn(Store, id))
       /\ SameTabs(Store, CloseForceFn(Store, id))
       /\ \A content \in Contents, markDirty \in BOOLEAN :
             SameTabs(Store, UpdateContentFn(Store, id, content, markDirty, NoDiff))
       /\ \A tokens \in TokenSeqs : SameTabs(Store, UpdateTokensFn(Store, id, tokens))
       /\ \A isDirty \in BOOLEAN : SameTabs(Store, MarkDirtyFn(Store, id, isDirty))
       /\ SameTabs(Store, TabPinFn(Store, id))
       /\ SameTabs(Store, CloseToRightFn(Store, id))
       /\ ~ReloadReads(Store, id)

\* C18: every buffer-store operation called with an id that no open buffer has
\* (closeBuffer, closeBufferForce, setActiveBuffer, handleTabClick,
\* updateBufferContent, updateBufferTokens, markBufferDirty, handleTabPin,
\* handleCloseTabsToRight, reloadBufferFromDisk) leaves buffers, activeBufferId
\* and pendingClose unchanged.
C18_UnknownIdChangesNothing ==
    /\ GuardedOpsIgnoreUnknownId
    /\ \A id \in IdsNotOpen :
          /\ SameTabs(Store, SetActiveFn(Store, id))
          /\ SameTabs(Store, TabClickFn(Store, id))

\* C19: no two open buffers share an id, and the id a buffer created at the
\* current clock value gets for a path that is not open is the id of no open
\* buffer.
C19_IdsUnique ==
    /\ \A i, j \in 1..Len(buffers) : buffers[i].id = buffers[j].id => i = j
    /\ \A path \in Paths :
          ExistingFor(buffers, path) = 0 =>
             FindIndex(buffers, generateBufferId(path, now)) = 0

\* Whether a pendingClose that t has and s has not names an unpinned dirty
\* buffer of s.
PendingFromUnpinned(s, t) ==
    t.pendingClose # s.pendingClose =>
       \E i \in 1..Len(s.buffers) :
          /\ s.buffers[i].id = t.pendingClose.bufferId
          /\ s.buffers[i].isDirty
          /\ ~s.buffers[i].isPinned

\* Whether the bulk close that takes s to t removed no pinned buffer and
\* recorded no pendingClose for a pinned buffer.
BulkSparesPinned(s, t) == PinnedKept(s.buffers, t.buffers) /\ PendingFromUnpinned(s, t)

\* The pending closes of the three bulk types for ids of CloseIds.
BulkPendings ==
    {[bufferId |-> d, type |-> "others", keepBufferId |-> k] : d, k \in CloseIds}
       \cup {[bufferId |-> d, type |-> type, keepBufferId |-> NullId] :
                d \in CloseIds, type \in {"all", "to-right"}}

\* C20: handleCloseOtherTabs, handleCloseAllTabs, handleCloseTabsToRight and
\* confirmCloseWithoutSaving of a pending close of type others, all or to-right
\* remove no pinned buffer, and a pendingClose they record names an unpinned
\* dirty buffer.
C20_BulkClosesSparePinned ==
    /\ \A id \in CloseIds :
          /\ BulkSparesPinned(Store, CloseOthersFn(Store, id))
          /\ BulkSparesPinned(Store, CloseToRightFn(Store, id))
    /\ BulkSparesPinned(Store, CloseAllFn(Store))
    /\ \A p \in BulkPendings : PinnedKept(buffers, ConfirmFn(Store, p).buffers)

\* The positions of the unpinned buffers that handleCloseOtherTabs(keep),
\* handleCloseAllTabs() and handleCloseTabsToRight(anchor) are to close.
OthersTargets(keep) ==
    {i \in 1..Len(buffers) : buffers[i].id # keep /\ ~buffers[i].isPinned}
AllTargets == {i \in 1..Len(buffers) : ~buffers[i].isPinned}
ToRightTargets(anchor) ==
    {i \in 1..Len(buffers) :
        /\ FindIndex(buffers, anchor) # 0
        /\ i > FindIndex(buffers, anchor)
        /\ ~buffers[i].isPinned}

\* Whether the bulk close of `type` that takes the store to t, with the
\* unpinned targets at `targets`, closed nothing and recorded a pendingClose of
\* its type when a target is dirty, and closed every target and recorded no
\* pendingClose when none is.
BulkAllOrNothing(targets, type, t) ==
    IF \E i \in targets : buffers[i].isDirty
    THEN /\ t.buffers = buffers
         /\ t.pendingClose # NoPending
         /\ t.pendingClose.type = type
    ELSE /\ \A i \in targets : FindIndex(t.buffers, buffers[i].id) = 0
         /\ \A i \in targets : FindIndexByPath(t.buffers, buffers[i].path) = 0
         /\ t.pendingClose = pendingClose

\* C21: when an unpinned buffer of the target set of handleCloseOtherTabs,
\* handleCloseAllTabs or handleCloseTabsToRight is dirty, the operation closes
\* no buffer and records a pendingClose of type others, all or to-right; when
\* none is dirty, it closes every unpinned buffer of the target set and records
\* no pendingClose.
C21_BulkCloseAllOrNothing ==
    /\ \A id \in CloseIds :
          /\ BulkAllOrNothing(OthersTargets(id), "others", CloseOthersFn(Store, id))
          /\ BulkAllOrNothing(ToRightTargets(id), "to-right", CloseToRightFn(Store, id))
    /\ BulkAllOrNothing(AllTargets, "all", CloseAllFn(Store))

\* A bulk close was blocked by a dirty unpinned buffer while a clean unpinned
\* buffer was among its targets.
C21_Witness ==
    /\ pendingClose # NoPending
    /\ pendingClose.type \in {"others", "all", "to-right"}
    /\ \E i, j \in 1..Len(buffers) :
          /\ buffers[i].isDirty /\ ~buffers[i].isPinned
          /\ buffers[i].id = pendingClose.bufferId
          /\ ~buffers[j].isDirty /\ ~buffers[j].isPinned

\* C22: a reloadBufferFromDisk call whose file read fails resolves, and the
\* step in which it does leaves buffers (content, isDirty and tokens of each),
\* activeBufferId, maxOpenTabs, pendingClose and closedBuffersHistory as they
\* were; no reloadBufferFromDisk call is ever rejected.
C22_FailedReloadChangesNothing ==
    /\ [](reloadSettled.kind \in {"none", "resolved"})
    /\ [][(reloading # NoReload /\ reloading' = NoReload
              /\ reloadSettled' = ReloadResolved("failed"))
            => /\ buffers' = buffers
               /\ activeBufferId' = activeBufferId
               /\ maxOpenTabs' = maxOpenTabs
               /\ pendingClose' = pendingClose
               /\ closedBuffersHistory' = closedBuffersHistory]_vars

\* The read of a reload failed while the buffer was open and dirty.
C22_Witness ==
    /\ reloadSettled = ReloadResolved("failed")
    /\ reloading = NoReload
    /\ \E i \in 1..Len(buffers) :
          /\ buffers[i].isDirty /\ ~buffers[i].isVirtual
          /\ buffers[i].content = "y"

\* C23: while the read of reloadBufferFromDisk is in flight and the buffer is
\* dirty with a content other than the one it had when the reload was
\* requested, the reload completing with any file content leaves the buffer
\* with that content and dirty.
C23_ReloadKeepsEdits ==
    reloading # NoReload =>
       LET i == FindIndex(buffers, reloading.bufferId) IN
       (i # 0 /\ buffers[i].content # reloading.content /\ buffers[i].isDirty) =>
          \A content \in Contents :
             LET r == ReloadedFn(Store, reloading.bufferId, content) IN
             /\ r.buffers[i].content = buffers[i].content
             /\ r.buffers[i].isDirty

\* The history entries of the buffers at the positions of P, the rightmost
\* position first.
RECURSIVE ClosedEntries(_)
ClosedEntries(P) ==
    IF P = {} THEN << >>
    ELSE LET i == CHOOSE k \in P : \A j \in P : j <= k IN
         <<[path |-> buffers[i].path, name |-> buffers[i].name,
            isPinned |-> buffers[i].isPinned]>> \o ClosedEntries(P \ {i})

\* Whether a step pushes, for some open real-file buffers that it closes, their
\* {path, name, isPinned} in front of the history and cuts the history to
\* MAX_CLOSED_BUFFERS_HISTORY entries.
HistoryPushed ==
    \E P \in SUBSET (1..Len(buffers)) :
       /\ P # {}
       /\ \A i \in P :
             /\ ~buffers[i].isVirtual /\ ~buffers[i].isDiff
             /\ ~buffers[i].isImage /\ ~buffers[i].isSQLite
             /\ \A j \in 1..Len(buffers') :
                   ~(buffers'[j].id = buffers[i].id /\ buffers'[j].path = buffers[i].path)
       /\ LET pushed == ClosedEntries(P) \o closedBuffersHistory IN
          closedBuffersHistory' =
             SubSeq(pushed, 1, IF Len(pushed) < MAX_CLOSED_BUFFERS_HISTORY THEN Len(pushed)
                               ELSE MAX_CLOSED_BUFFERS_HISTORY)

\* C24: closedBuffersHistory never has more than MAX_CLOSED_BUFFERS_HISTORY
\* entries, and every step leaves it as it is, removes its head (a reopen), or
\* puts in front of it the {path, name, isPinned} of real-file buffers closed in
\* that step, the last closed first, cut to MAX_CLOSED_BUFFERS_HISTORY.
C24_HistoryBoundedAndOrdered ==
    /\ [](Len(closedBuffersHistory) <= MAX_CLOSED_BUFFERS_HISTORY)
    /\ [][\/ closedBuffersHistory' = closedBuffersHistory
          \/ /\ closedBuffersHistory # << >>
             /\ closedBuffersHistory' = Tail(closedBuffersHistory)
             /\ reopening' = Head(closedBuffersHistory)
          \/ HistoryPushed]_vars

\* The history is full, its head the entry of a pinned buffer closed after the
\* unpinned buffer of another path that the other entry describes.
C24_Witness ==
    /\ Len(closedBuffersHistory) = MAX_CLOSED_BUFFERS_HISTORY
    /\ closedBuffersHistory[1].isPinned
    /\ ~closedBuffersHistory[2].isPinned
    /\ closedBuffersHistory[1].path # closedBuffersHistory[2].path

\* Whether b is a real file: not virtual, diff, image or sqlite.
Persisted(b) == ~(b.isVirtual \/ b.isDiff \/ b.isImage \/ b.isSQLite)

\* Whether snap lists exactly the real files of bufs as {path, name, isPinned},
\* in the order of bufs.
SnapshotOf(snap, bufs) ==
    /\ Len(snap) = Cardinality({i \in 1..Len(bufs) : Persisted(bufs[i])})
    /\ \A i \in 1..Len(bufs) :
          Persisted(bufs[i]) =>
             LET k == Cardinality({j \in 1..i : Persisted(bufs[j])}) IN
             snap[k] = [path |-> bufs[i].path, name |-> bufs[i].name,
                        isPinned |-> bufs[i].isPinned]

\* Whether path is the path of the buffer of bufs that activeId names when that
\* buffer is a real file, and null otherwise.
ActivePathOf(path, bufs, activeId) ==
    IF \E i \in 1..Len(bufs) : bufs[i].id = activeId
    THEN \E i \in 1..Len(bufs) :
            /\ bufs[i].id = activeId
            /\ \A j \in 1..(i - 1) : bufs[j].id # activeId
            /\ path = (IF Persisted(bufs[i]) THEN bufs[i].path ELSE NoPath)
    ELSE path = NoPath

\* Whether the snapshot that openBuffer of a real file on a path that is not
\* open schedules has that file, the new active buffer, as its active path.
OpenedFileIsActivePath ==
    \A path \in {PathAB1, PathAB2} :
       LET r == OpenBufferFn(Store, now, path, path, "x", FileFlags, NoDiff) IN
       r.outcome = "created" =>
          SaveSessionFn(NoSession, WorkspaceW, r.store.sessionSave).activeBufferPath = path

\* C25: a saveSessionToStore call holds the buffers and the active id that the
\* mutation left; when its callback runs with no root folder open, no snapshot
\* is saved, and otherwise the snapshot passed to saveSession lists exactly the
\* real files among those buffers as {path, name, isPinned} in tab order, with
\* the path of the buffer that the active id names when it is a real file and
\* null otherwise; the snapshot of an openBuffer that created a real-file
\* buffer has the path of that buffer as its active path.
C25_SnapshotHoldsRealFiles ==
    /\ []OpenedFileIsActivePath
    /\ [][(sessionSave' # sessionSave /\ sessionSave'.pending) =>
             /\ Len(sessionSave'.buffers) = Len(buffers')
             /\ \A i \in 1..Len(buffers') :
                   /\ sessionSave'.buffers[i].id = buffers'[i].id
                   /\ sessionSave'.buffers[i].path = buffers'[i].path
                   /\ sessionSave'.buffers[i].name = buffers'[i].name
                   /\ sessionSave'.buffers[i].isPinned = buffers'[i].isPinned
                   /\ Persisted(sessionSave'.buffers[i]) = Persisted(buffers'[i])
             /\ sessionSave'.activeBufferId = activeBufferId']_vars
    /\ [][(sessionSave.pending /\ ~sessionSave'.pending) =>
             IF rootFolderPath = NoPath
             THEN savedSession' = savedSession
             ELSE /\ savedSession'.rootFolderPath = rootFolderPath
                  /\ SnapshotOf(savedSession'.buffers, sessionSave.buffers)
                  /\ ActivePathOf(savedSession'.activeBufferPath, sessionSave.buffers,
                                  sessionSave.activeBufferId)]_vars

\* A step in which the stop call at position i of lspCalls settles.
StopSettles(i) ==
    /\ i \in 1..Len(lspCalls)
    /\ lspCalls[i].pc = "stop"
    /\ lspCalls' = RemoveAt(lspCalls, i)

\* C26: when stop(w) resolves, the active-session set has no session of w and
\* still has every session of every other workspace; when the host call fails,
\* stop rejects and the set is unchanged.
C26_StopRemovesOnlyItsWorkspace ==
    [][\A i \in 1..MaxLspCalls :
          StopSettles(i) =>
             LET w == lspCalls[i].workspacePath IN
             IF lspSettled'.kind = "resolved"
             THEN /\ \A lang \in Languages :
                        ServerKey(w, lang) \notin activeLanguageServers'
                  /\ \A v \in Workspaces \ {w}, lang \in Languages :
                        ServerKey(v, lang) \in activeLanguageServers =>
                           ServerKey(v, lang) \in activeLanguageServers'
             ELSE /\ lspSettled' = Rejected("stop", "stop error")
                  /\ activeLanguageServers' = activeLanguageServers]_vars

\* A step in which the host call of the start or startForFile call at position
\* i of lspCalls fails.
SpawnFails(i) ==
    /\ i \in 1..Len(lspCalls)
    /\ lspCalls[i].pc = "invoke"
    /\ lspCalls' = RemoveAt(lspCalls, i)
    /\ lspSettled'.kind = "rejected"

\* C27: when the host's spawn call fails, start and startForFile reject with
\* the error of the host and the active-session set is unchanged; the pair of
\* the failed call, unless it was active before, is not active afterwards, and
\* a start for it then goes on to ask the host again.
C27_FailedSpawnRecordsNothing ==
    [][\A i \in 1..MaxLspCalls :
          SpawnFails(i) =>
             LET call == lspCalls[i] IN
             /\ lspSettled' = Rejected(call.op, "spawn error")
             /\ call.op \in {"start", "startForFile"}
             /\ activeLanguageServers' = activeLanguageServers
             /\ (call.filePath # NoPath
                   /\ ServerKey(call.workspacePath, getLanguageId(call.filePath))
                         \notin activeLanguageServers) =>
                   /\ ServerKey(call.workspacePath, getLanguageId(call.filePath))
                         \notin activeLanguageServers'
                   /\ ~AlreadyRunning(activeLanguageServers', call.workspacePath,
                                      call.filePath)]_vars

\* After a startForFile was rejected and no session recorded, a call for a
\* TypeScript file is awaiting the host again.
C27_Witness ==
    /\ lspSettled = Rejected("startForFile", "spawn error")
    /\ activeLanguageServers = {}
    /\ \E i \in 1..Len(lspCalls) :
          /\ lspCalls[i].pc = "invoke"
          /\ lspCalls[i].filePath = PathTs
          /\ spawned[<<lspCalls[i].workspacePath, LanguageTs>>] = 1

\* C28: every failure of the LSP start that openBuffer begins, the rejection
\* of startForFile or the failure of an import, reaches a .catch of the buffer
\* store and is logged; none is left unhandled.
C28_GateFailuresAreLogged ==
    \A failure \in gateFailures : failure.handler = "logged"

\* C29: when every open buffer with a path is virtual, openBuffer of a real
\* file with that path constructs a new buffer, with an id that no open buffer
\* has, and leaves the virtual buffer open.
C29_VirtualBufferIsNotReused ==
    \A path \in {PathAB1, PathAB2} :
       (/\ \E i \in 1..Len(buffers) : buffers[i].path = path
        /\ \A i \in 1..Len(buffers) : buffers[i].path = path => buffers[i].isVirtual
        /\ ~EvictionThrows(buffers, maxOpenTabs)) =>
          LET r == OpenBufferFn(Store, now, path, path, "x", FileFlags, NoDiff) IN
          /\ r.outcome = "created"
          /\ \A i \in 1..Len(buffers) : buffers[i].id # r.ret
          /\ \E i \in 1..Len(r.store.buffers) :
                /\ r.store.buffers[i].path = path
                /\ ~r.store.buffers[i].isVirtual

\* An input calls tokenize once, with the new text, which is then the stored
\* content of the active buffer.
InputTokenizesOnce ==
    \A newContent \in EnvOverlay.contents, selectionStart \in EnvOverlay.offsets :
        handleInput(newContent, selectionStart) =>
            /\ tokenizeCalls' = <<[from |-> "handleInput", text |-> newContent]>>
            /\ OverlayContent(buffers', activeBufferId') = newContent

\* The switch effect calls tokenize only after the active buffer id or its
\* path changed (or the component mounted), at most once, with the stored
\* content.
SwitchTokenizesAtMostOnce ==
    LET fromEffect == {k \in 1..Len(tokenizeCalls') :
                          tokenizeCalls'[k].from = "effect"} IN
    /\ Cardinality(fromEffect) <= 1
    /\ fromEffect # {} =>
          \/ EffectRuns(buffers, activeBufferId, buffers', activeBufferId')
          \/ ~mounted /\ mounted'
    /\ \A k \in fromEffect :
          tokenizeCalls'[k].text = OverlayContent(buffers', activeBufferId')

RECURSIVE NextTimes(_, _)
NextTimes(s, k) == IF k = 0 THEN s ELSE NextTimes(SwitchNextFn(s), k - 1)

\* switchToPreviousBuffer applied k times to s.
RECURSIVE PreviousTimes(_, _)
PreviousTimes(s, k) == IF k = 0 THEN s ELSE PreviousTimes(SwitchPrevFn(s), k - 1)

\* Whether s2 differs from s in nothing but the active buffer: activeBufferId
\* and the isActive flags.
OnlyActiveMoved(s, s2) ==
    /\ Len(s2.buffers) = Len(s.buffers)
    /\ \A i \in 1..Len(s.buffers) :
          [s2.buffers[i] EXCEPT !.isActive = FALSE]
             = [s.buffers[i] EXCEPT !.isActive = FALSE]
    /\ [s2 EXCEPT !.buffers = << >>, !.activeBufferId = NullId]
          = [s EXCEPT !.buffers = << >>, !.activeBufferId = NullId]

\* C32: switchToNextBuffer and switchToPreviousBuffer change nothing on an
\* empty list; with n >= 1 open buffers, one of which has the id activeBufferId,
\* they change only the active buffer, the second undoes the first, and n
\* applications of either come back to the buffer that was active.
C32_SwitchesAreCyclic ==
    LET n == Len(buffers) IN
    IF n = 0
    THEN SwitchNextFn(Store) = Store /\ SwitchPrevFn(Store) = Store
    ELSE FindIndex(buffers, activeBufferId) # 0 =>
            /\ OnlyActiveMoved(Store, SwitchNextFn(Store))
            /\ OnlyActiveMoved(Store, SwitchPrevFn(Store))
            /\ SwitchPrevFn(SwitchNextFn(Store)).activeBufferId = activeBufferId
            /\ NextTimes(Store, n).activeBufferId = activeBufferId
            /\ PreviousTimes(Store, n).activeBufferId = activeBufferId

\* C33: openBuffer of a path that is not open, whatever it evicts to keep the
\* limit of unpinned tabs, leaves every dirty buffer open (the open buffers
\* have distinct ids).
C33_EvictionSparesDirty ==
    \A path \in Paths :
       LET r == OpenBufferFn(Store, now, path, path, "x", FileFlags, NoDiff) IN
       (IdsStayDistinct(Store, path) /\ r.outcome = "created") =>
          \A i \in 1..Len(buffers) :
             buffers[i].isDirty =>
                \E j \in 1..Len(r.store.buffers) :
                   /\ r.store.buffers[j].id = buffers[i].id
                   /\ r.store.buffers[j].isDirty

\* The indices reorderBuffers is tried with: in range, one and two past either
\* end.
ReorderIndices == (0 - 2)..(Len(buffers) + 1)

\* Whether bufs2 holds the entries of bufs, each as often as bufs does.
IsPermutation(bufs, bufs2) ==
    /\ Len(bufs2) = Len(bufs)
    /\ \A i \in 1..Len(bufs) :
          Cardinality({j \in 1..Len(bufs) : bufs[j] = bufs[i]})
             = Cardinality({j \in 1..Len(bufs2) : bufs2[j] = bufs[i]})

\* C38: for all integers startIndex and endIndex, in range or not,
\* reorderBuffers leaves the open buffers a permutation of the list before,
\* every buffer with the fields it had, and leaves activeBufferId unchanged.
C38_ReorderPermutes ==
    \A startIndex \in ReorderIndices, endIndex \in ReorderIndices :
       LET s == ReorderFn(Store, startIndex, endIndex) IN
       /\ IsPermutation(buffers, s.buffers)
       /\ s.activeBufferId = activeBufferId

\* C39: while the read of reloadBufferFromDisk is in flight for a real file
\* whose content and isDirty are what they were when the reload was requested,
\* the read succeeding with any file content leaves the buffer with that
\* content and isDirty = false.
C39_ReloadGivesCleanFileContent ==
    reloading # NoReload =>
       LET i == FindIndex(buffers, reloading.bufferId) IN
       ( /\ i # 0
         /\ ~buffers[i].isVirtual /\ ~buffers[i].isDiff
         /\ buffers[i].content = reloading.content
         /\ buffers[i].isDirty = reloading.isDirty ) =>
          \A content \in Contents :
             LET r == ReloadedFn(Store, reloading.bufferId, content) IN
             /\ r.buffers[i].content = content
             /\ ~r.buffers[i].isDirty

\* The paths of the real files that are open in bufs under an id that no
\* buffer of bufs2 has.
RemovedFiles(bufs, bufs2) ==
    {bufs[i].path : i \in {k \in 1..Len(bufs) :
                              /\ IsRealFile(bufs[k])
                              /\ \A j \in 1..Len(bufs2) : bufs2[j].id # bufs[k].id}}

\* C35: every step that removes a real file from the open buffers (the open
\* buffers having distinct ids) begins an LSP stop for the path of the file:
\* the stop is pending after the step.
C35_RemovalStopsLsp ==
    [][(\A i, j \in 1..Len(buffers) : buffers[i].id = buffers[j].id => i = j)
          => RemovedFiles(buffers, buffers') \subseteq stopStarts']_vars

\* A step of stopForFile: the call, or the host call resolving or failing.
StopForFileStep ==
    \/ \E filePath \in AllPaths : stopForFile(filePath)
    \/ \E i \in 1..MaxLspCalls : stopForFileResolved(i) \/ stopForFileRejected(i)

\* A startForFile call, made after a stopForFile call settled, passes its
\* import while the key of its workspace and language is recorded.
StartAfterStop(i) ==
    /\ lspSettled.op = "stopForFile"
    /\ lspImported(i)
    /\ lspCalls[i].op = "startForFile"
    /\ getLanguageId(lspCalls[i].filePath) # NoLanguage
    /\ ServerKey(lspCalls[i].workspacePath, getLanguageId(lspCalls[i].filePath))
          \in activeLanguageServers

\* C40: no step of stopForFile changes the active-session set, whether the
\* host call succeeds or fails; and a startForFile that comes after a
\* stopForFile, for a file whose workspace:language key is recorded, returns
\* without a spawn request.
C40_StopForFileKeepsSessions ==
    /\ [][StopForFileStep => activeLanguageServers' = activeLanguageServers]_vars
    /\ [][\A i \in 1..MaxLspCalls :
             StartAfterStop(i) => (spawned' = spawned /\ Len(lspCalls') < Len(lspCalls))]_vars

\* C37: whenever no installExtension, uninstallExtension or
\* loadInstalledExtensions call is in flight, every entry of
\* availableExtensions has isInstalled equal to the membership of its id in
\* installedExtensions.
C37_InstalledFlagsAgree ==
    (extensionCalls = << >> /\ ~loadingInstalled) =>
       \A i \in 1..Len(availableExtensions) :
          availableExtensions[i].isInstalled
             = (availableExtensions[i].manifest.id \in installedExtensions)

\* C36: the "extension-install-needed" event is dispatched only for an
\* extension that is not installed: whatever the interleaving of openBuffer
\* with the loading of the installed list, a failed load included, no event is
\* dispatched for an extension the host reports as installed.
C36_EventOnlyForUninstalled ==
    [][\A detail \in installNeeded' \ installNeeded :
          detail.extensionId \notin hostInstalled]_vars

\* The cursor restore effect set a timer in this step.
RestoreTimerSet == Len(restoreTimers') > Len(restoreTimers)

\* The callback of a restore timer ran in this step.
RestoreTimerRan == Len(restoreTimers') < Len(restoreTimers)

\* C31: the cursor restore step, which overwrites the selection of the textarea
\* with the recorded offset and focuses it, runs only when the active buffer id
\* changed (or the overlay mounted): no edit and no cursor or selection change
\* within one buffer sets it off, and it never collapses a selection the user
\* made that is not empty.
C31_RestoreOnlyOnBufferSwitch ==
    [][/\ RestoreTimerSet => (activeBufferId' # activeBufferId \/ ~mounted)
       /\ (RestoreTimerRan /\ textarea.attached
             /\ textarea.selectionStart # textarea.selectionEnd)
          => textarea' = textarea]_vars

\* C34: while EditorOverlay shows a buffer, between the events of its textarea,
\* the text of the textarea is the content of the active buffer.
C34_TextareaHoldsActiveContent ==
    textarea.attached => textarea.value = OverlayContent(buffers, activeBufferId)
====
